---- MODULE Spec2Model ----
\* Verification model of githem (rotkonetworks/githem): the in-memory artifact
\* cache of the API server (api/src/cache.rs), the HTTP handlers that use it
\* (api/src/http.rs) and the path filter of the core (core/src/ingester.rs,
\* core/src/lib.rs).
EXTENDS Integers, Sequences, FiniteSets, TLC

VARIABLES
    cache,      \* RepositoryCache.cache : HashMap<String, CachedRepository>
    now,        \* SystemTime::now() in seconds since the epoch
    lastOp,     \* the last cache operation called directly and what it returned
    head,       \* the commit the upstream branch points to
    req,        \* the HTTP request being handled: handler position and locals
    prev,       \* the request answered before this one: inputs, arrival, response
    fin         \* pure-function harness: the inputs drawn and the result

vars == <<cache, now, lastOp, head, req, prev, fin>>

\* ------------------------------------------------------------------ bounds
max_size == 2
MaxContentLen == 3
MaxAccessCount == 2
MaxPathLen == 3
EmitMaxFileSize == 1

\* ------------------------------------------------------- program constants
CACHE_FRESH_SECS == 300
CACHE_EXPIRE_SECS == 604800

\* Option<T>: None is the empty tuple, Some(x) the one-element tuple.
None == <<>>

Some(x) == <<x>>

IsSome(o) == o # None

Unwrap(o) == o[1]

\* ---------------------------------------------------------------- strings
\* A Rust string is a sequence of one-character strings.
StartsWith(s, p) == Len(p) <= Len(s) /\ SubSeq(s, 1, Len(p)) = p

EndsWith(s, p) == Len(p) <= Len(s) /\ SubSeq(s, Len(s) - Len(p) + 1, Len(s)) = p

Contains(s, p) == \E i \in 1..(Len(s) - Len(p) + 1) : SubSeq(s, i, i + Len(p) - 1) = p

\* ------------------------------------------------- RepositoryCache (api)
\* The cache is a function whose domain is the set of keys present.
Remove(c, key) == [k \in (DOMAIN c) \ {key} |-> c[k]]

Insert(c, key, entry) == [k \in (DOMAIN c) \cup {key} |-> IF k = key THEN entry ELSE c[k]]

RECURSIVE SumSizes(_, _)
SumSizes(c, ks) ==
    IF ks = {} THEN 0
    ELSE LET k == CHOOSE x \in ks : TRUE
         IN  c[k].size_bytes + SumSizes(c, ks \ {k})

calculate_size(c) == SumSizes(c, DOMAIN c)

\* A check_status that measures freshness from created_at.
check_status_age_only(c, key, t) ==
    IF key \in DOMAIN c
    THEN LET age == t - c[key].created_at
         IN  IF age > CACHE_EXPIRE_SECS THEN <<"Expired", None>>
             ELSE IF age < CACHE_FRESH_SECS THEN <<"Fresh", Some(c[key].commit_hash)>>
             ELSE <<"Valid", Some(c[key].commit_hash)>>
    ELSE <<"Miss", None>>

\* A check_status without the Fresh tier.
check_status_never_fresh(c, key, t) ==
    IF key \in DOMAIN c
    THEN LET age == t - c[key].created_at
         IN  IF age > CACHE_EXPIRE_SECS THEN <<"Expired", None>>
             ELSE <<"Valid", Some(c[key].commit_hash)>>
    ELSE <<"Miss", None>>

\* check_status: (CacheStatus, Option<String>), no mutation.
check_status(c, key, t) ==
    IF key \in DOMAIN c
    THEN LET age == t - c[key].created_at
             since_validation == t - c[key].last_validated
         IN  IF age > CACHE_EXPIRE_SECS THEN <<"Expired", None>>
             ELSE IF since_validation < CACHE_FRESH_SECS THEN <<"Fresh", Some(c[key].commit_hash)>>
             ELSE <<"Valid", Some(c[key].commit_hash)>>
    ELSE <<"Miss", None>>

\* get: the cache after the call and the entry returned (None on a miss).
get(c, key, t) ==
    IF key \in DOMAIN c
    THEN LET age == t - c[key].created_at
         IN  IF age > CACHE_EXPIRE_SECS
             THEN [cache |-> Remove(c, key), ret |-> None]
             ELSE LET e == [c[key] EXCEPT !.last_accessed = t,
                                          !.access_count = @ + 1]
                  IN  [cache |-> Insert(c, key, e), ret |-> Some(e)]
    ELSE [cache |-> c, ret |-> None]

mark_validated(c, key, t) ==
    IF key \in DOMAIN c
    THEN [c EXCEPT ![key].last_validated = t]
    ELSE c

\* An invalidate that drops every entry.
invalidate_clear(c, key) == [k \in {} |-> <<>>]

invalidate(c, key) == Remove(c, key)

\* The keys min_by_key(last_accessed) can return: HashMap iteration order is
\* unspecified, so any entry with the minimal last_accessed may be chosen.
\* An eviction that may remove any entry, whatever its last_accessed.
LruKeys_any(c) == DOMAIN c

LruKeys(c) == {k \in DOMAIN c : \A j \in DOMAIN c : c[k].last_accessed <= c[j].last_accessed}

\* One iteration of the eviction loop of put, as the record of what it
\* removed: the key, its last_accessed, and the last_accessed values of the
\* entries present when it was chosen.
Eviction(c, k) ==
    [key |-> k, last_accessed |-> c[k].last_accessed,
     present |-> {c[j].last_accessed : j \in DOMAIN c}]

\* The eviction loop of put: every run it can make, as the cache it leaves
\* behind and the removals in the order they happened.
RECURSIVE EvictRuns(_, _, _)
EvictRuns(c, size_bytes, evicted) ==
    IF calculate_size(c) + size_bytes > max_size /\ DOMAIN c # {}
    THEN UNION {EvictRuns(Remove(c, k), size_bytes, Append(evicted, Eviction(c, k))) : k \in LruKeys(c)}
    ELSE {[cache |-> c, evicted |-> evicted]}

\* The eviction loop of put: every cache it can leave behind.
Evict(c, size_bytes) == {run.cache : run \in EvictRuns(c, size_bytes, <<>>)}

\* An entry built with last_validated left at zero.
NewEntry_unvalidated(key, url, branch, commit_hash, result, t) ==
    [key |-> key, url |-> url, branch |-> branch, commit_hash |-> commit_hash,
     result |-> result, created_at |-> t, last_accessed |-> t,
     last_validated |-> 0, access_count |-> 1, size_bytes |-> result.len]

\* The CachedRepository put builds: all three timestamps are now.
NewEntry(key, url, branch, commit_hash, result, t) ==
    [key |-> key, url |-> url, branch |-> branch, commit_hash |-> commit_hash,
     result |-> result, created_at |-> t, last_accessed |-> t,
     last_validated |-> t, access_count |-> 1, size_bytes |-> result.len]

\* put: the set of caches the call can produce.
put(c, key, url, branch, commit_hash, result, t) ==
    {Insert(e, key, NewEntry(key, url, branch, commit_hash, result, t)) :
        e \in Evict(c, result.len)}

\* generate_key: SHA-256 over the bytes fed to the hasher, rendered as hex.
\* The digest is kept as the tagged byte string it was computed from, so two
\* keys are equal exactly when the hashed bytes are equal.
Sha256Hex(bytes) == <<"sha256", bytes>>

OptPart(o) == IF IsSome(o) THEN <<":">> \o Unwrap(o) ELSE <<>>

generate_key(url, branch, preset, path) ==
    Sha256Hex(url \o OptPart(branch) \o OptPart(preset) \o OptPart(path))

\* ------------------------------------------------------------ model inputs
CommitA == <<"A">>
CommitB == <<"B">>
Commits == {CommitA, CommitB}

RepoUrl == <<"h", "t", "t", "p", "s", ":", "/", "/", "g", "i", "t", "h", "u", "b",
             ".", "c", "o", "m", "/", "o", "/", "r">>

BranchX == <<"x">>

\* The instants at which the clock is read: the start, one second later, the
\* freshness window met exactly, and the hard expiry age exceeded.
Instants == {0, 1, CACHE_FRESH_SECS, CACHE_EXPIRE_SECS + 1}

EmptyCache == [k \in {} |-> None]

NoOp == [op |-> "none"]

NoFin == [fn |-> "none"]

Idle == [pc |-> "idle"]

NoPrev == [kind |-> "none"]

\* ------------------------------------------- the cache called directly
\* Keys and their (url, branch) as a caller of the cache API supplies them.
CacheKeyArgs == {<<RepoUrl, None>>, <<RepoUrl, Some(BranchX)>>}

KeyOf(a) == generate_key(a[1], a[2], None, None)

Result(commit, len) == [content |-> commit, len |-> len]

CacheInit ==
    /\ cache = EmptyCache
    /\ now = 0
    /\ lastOp = NoOp
    /\ head = CommitA
    /\ req = Idle
    /\ prev = NoPrev
    /\ fin = NoFin

\* Time passes: the clock never goes back.
Tick ==
    /\ \E t \in Instants : t > now /\ now' = t
    /\ lastOp' = NoOp
    /\ UNCHANGED <<cache, head, req, prev, fin>>

DoPut ==
    \E a \in CacheKeyArgs, commit \in {CommitA}, len \in 1..MaxContentLen :
        /\ \E run \in EvictRuns(cache, len, <<>>) :
               /\ cache' = Insert(run.cache, KeyOf(a), NewEntry(KeyOf(a), a[1], a[2], commit, Result(commit, len), now))
               /\ lastOp' = [op |-> "put", key |-> KeyOf(a), size_bytes |-> len,
                             entries |-> Cardinality(DOMAIN cache),
                             evicted |-> run.evicted, left |-> run.cache]
        /\ UNCHANGED <<now, head, req, prev, fin>>

DoGet ==
    \E a \in CacheKeyArgs :
        /\ KeyOf(a) \in DOMAIN cache => cache[KeyOf(a)].access_count < MaxAccessCount
        /\ cache' = get(cache, KeyOf(a), now).cache
        /\ lastOp' = [op |-> "get", key |-> KeyOf(a),
                      hit |-> IsSome(get(cache, KeyOf(a), now).ret)]
        /\ UNCHANGED <<now, head, req, prev, fin>>

DoMarkValidated ==
    \E a \in CacheKeyArgs :
        /\ cache' = mark_validated(cache, KeyOf(a), now)
        /\ lastOp' = NoOp
        /\ UNCHANGED <<now, head, req, prev, fin>>

DoInvalidate ==
    \E a \in CacheKeyArgs :
        /\ cache' = invalidate(cache, KeyOf(a))
        /\ lastOp' = NoOp
        /\ UNCHANGED <<now, head, req, prev, fin>>

DoCheckStatus ==
    \E a \in CacheKeyArgs :
        /\ lastOp' = [op |-> "check_status", key |-> KeyOf(a),
                      ret |-> check_status(cache, KeyOf(a), now)]
        /\ UNCHANGED <<cache, now, head, req, prev, fin>>

CacheNext ==
    \/ Tick
    \/ DoPut
    \/ DoGet
    \/ DoMarkValidated
    \/ DoInvalidate
    \/ DoCheckStatus

SpecCache == CacheInit /\ [][CacheNext]_vars

\* ------------------------------------------------------- HTTP handlers
INGEST_TIMEOUT == 300

DEFAULT_MAX_FILE_SIZE == 10485760

\* validate_github_name (core): the characters the model's names are made of.
AlphaNumeric == {"o", "r", "x", "a", "b", "0"}

\* Alphanumeric characters outside ASCII, each written as its code point;
\* U+00E9 is a letter of two bytes in UTF-8.
NonAsciiAlphaNumeric == {"U+00E9"}

\* char::is_alphanumeric: the Unicode property, not the ASCII one.
is_alphanumeric(c) == c \in AlphaNumeric \cup NonAsciiAlphaNumeric

\* str::len: the length in bytes of the UTF-8 encoding.
RECURSIVE ByteLen(_)
ByteLen(s) ==
    IF s = <<>> THEN 0
    ELSE (IF s[1] \in NonAsciiAlphaNumeric THEN 2 ELSE 1) + ByteLen(Tail(s))

\* validate_github_name (core): len() counts bytes, all() tests every char.
validate_github_name(name) ==
    /\ name # <<>>
    /\ ByteLen(name) <= 39
    /\ \A i \in 1..Len(name) : is_alphanumeric(name[i]) \/ name[i] \in {"-", "_", "."}
    /\ name[1] \notin {"-", "."}
    /\ name[Len(name)] \notin {"-", "."}

\* Option::or
OrOpt(a, b) == IF IsSome(a) THEN a ELSE b

GithubPrefix == <<"h", "t", "t", "p", "s", ":", "/", "/", "g", "i", "t", "h", "u", "b",
                  ".", "c", "o", "m", "/">>

\* format!("https://github.com/{owner}/{repo}")
FormatUrl(owner, repo) == GithubPrefix \o owner \o <<"/">> \o repo

\* str::trim on the blanks of the model's alphabet.
RECURSIVE TrimStart(_)
TrimStart(s) == IF s # <<>> /\ s[1] = " " THEN TrimStart(Tail(s)) ELSE s

RECURSIVE TrimEnd(_)
TrimEnd(s) == IF s # <<>> /\ s[Len(s)] = " " THEN TrimEnd(SubSeq(s, 1, Len(s) - 1)) ELSE s

Trim(s) == TrimEnd(TrimStart(s))

\* str::split(','): the pieces between the commas, in order.
RECURSIVE SplitComma(_, _)
SplitComma(s, cur) ==
    IF s = <<>> THEN <<cur>>
    ELSE IF s[1] = "," THEN <<cur>> \o SplitComma(Tail(s), <<>>)
    ELSE SplitComma(Tail(s), Append(cur, s[1]))

\* params.include.unwrap_or_default().split(',').map(trim).filter(non-empty)
PatternList(o) ==
    LET parts == SplitComma(IF IsSome(o) THEN Unwrap(o) ELSE <<>>, <<>>)
        trimmed == [i \in 1..Len(parts) |-> Trim(parts[i])]
    IN  SelectSeq(trimmed, LAMBDA q : q # <<>>)

\* .filter(|p| !p.contains("..") && !p.starts_with('/'))
SafePath(o) ==
    IF IsSome(o) /\ ~Contains(Unwrap(o), <<".", ".">>) /\ ~StartsWith(Unwrap(o), <<"/">>)
    THEN o ELSE None

\* The IngestionParams ingest_github_repo builds for IngestionService::ingest.
GetIngestionParams(url, branch, path_prefix, q) ==
    [url |-> url,
     subpath |-> q.subpath,
     branch |-> OrOpt(branch, q.branch),
     path_prefix |-> SafePath(OrOpt(OrOpt(path_prefix, q.path), q.subpath)),
     include_patterns |-> PatternList(q.include),
     exclude_patterns |-> PatternList(q.exclude),
     max_file_size |-> IF IsSome(q.max_size) THEN Unwrap(q.max_size) ELSE DEFAULT_MAX_FILE_SIZE,
     filter_preset |-> q.preset,
     raw |-> IF IsSome(q.raw) THEN Unwrap(q.raw) ELSE FALSE]

\* The IngestionParams ingest_repository builds from the JSON body.
PostIngestionParams(b) ==
    [url |-> b.url,
     subpath |-> b.subpath,
     branch |-> b.branch,
     path_prefix |-> OrOpt(b.path_prefix, b.subpath),
     include_patterns |-> b.include_patterns,
     exclude_patterns |-> b.exclude_patterns,
     max_file_size |-> b.max_file_size,
     filter_preset |-> b.filter_preset,
     raw |-> b.raw]

\* The artifact's length in bytes, by the snapshot it was made from.
ContentLen(snap) == IF snap = CommitA THEN 1 ELSE 2

\* IngestionService::ingest on success: the artifact is a function of the
\* parameters and of the snapshot cloned; metadata.url is the url ingested.
IngestResult(params, snap) ==
    [content |-> [params |-> params, snap |-> snap],
     len |-> ContentLen(snap),
     url |-> params.url]

\* QueryParams and the request inputs drawn.
NoQuery ==
    [branch |-> None, subpath |-> None, include |-> None, exclude |-> None,
     max_size |-> None, preset |-> None, raw |-> None, path |-> None]

GetInputs ==
    {[owner |-> <<"o">>, repo |-> <<"r">>, branch |-> None, path_prefix |-> None, q |-> NoQuery],
     [owner |-> <<"o">>, repo |-> <<"r">>, branch |-> Some(BranchX), path_prefix |-> None, q |-> NoQuery],
     [owner |-> <<"-", "o">>, repo |-> <<"r">>, branch |-> None, path_prefix |-> None, q |-> NoQuery]}

PostInputs ==
    {[url |-> RepoUrl, branch |-> None, subpath |-> None, path_prefix |-> None,
      include_patterns |-> <<>>, exclude_patterns |-> <<>>,
      max_file_size |-> DEFAULT_MAX_FILE_SIZE, filter_preset |-> None, raw |-> FALSE]}

\* GET requests that differ only in the query string: the plain request, one
\* with an include pattern, a size limit and raw set, and one whose path
\* parameter is traversal-unsafe.
QueryInputs ==
    {[owner |-> <<"o">>, repo |-> <<"r">>, branch |-> None, path_prefix |-> None, q |-> NoQuery],
     [owner |-> <<"o">>, repo |-> <<"r">>, branch |-> None, path_prefix |-> None,
      q |-> [NoQuery EXCEPT !.include = Some(<<"a">>), !.max_size = Some(1),
                            !.raw = Some(TRUE)]],
     [owner |-> <<"o">>, repo |-> <<"r">>, branch |-> None, path_prefix |-> None,
      q |-> [NoQuery EXCEPT !.path = Some(<<".", ".">>)]]}

\* The GET requests the clients of a run send.
RequestInputs == IF fin = NoFin THEN GetInputs ELSE fin.inputs

\* What the handler found under its key when the request arrived.
EntryOf(c, key) == IF key \in DOMAIN c THEN Some(c[key]) ELSE None

\* Whether a step changed the entry of any key but the request's own.
OthersChanged(c, d, key) ==
    \/ (DOMAIN c) \ {key} # (DOMAIN d) \ {key}
    \/ \E k \in (DOMAIN c) \ {key} : c[k] # d[k]

\* History of the request: the calls the handler made on the cache, on
\* get_remote_head and on the ingestion service, each with what it returned.
Event(call, arg) == [call |-> call, arg |-> arg]

Called(r, call) == \E i \in 1..Len(r.trace) : r.trace[i].call = call

CalledWith(r, call, arg) ==
    \E i \in 1..Len(r.trace) : r.trace[i].call = call /\ r.trace[i].arg = arg

HttpInit ==
    /\ cache = EmptyCache
    /\ now = 0
    /\ lastOp = NoOp
    /\ head = CommitA
    /\ req = Idle
    /\ prev = NoPrev
    /\ fin = NoFin

\* Time passes between requests and while a request is handled; a request
\* in flight lasts no longer than the ingest timeout.
HttpTick ==
    /\ \E t \in Instants :
        /\ t > now
        /\ req.pc # "idle" => t - req.started <= INGEST_TIMEOUT
        /\ now' = t
    /\ UNCHANGED <<cache, lastOp, head, req, prev, fin>>

\* Upstream moves the branch to a new commit.
UpstreamAdvance ==
    /\ head = CommitA
    /\ head' = CommitB
    /\ UNCHANGED <<cache, now, lastOp, req, prev, fin>>

Fail(r, err) == [r EXCEPT !.pc = "done", !.resp = [ok |-> FALSE, err |-> err]]

Serve(r, content) == [r EXCEPT !.pc = "done", !.resp = [ok |-> TRUE, body |-> content]]

Log(r, call, arg) == [r EXCEPT !.trace = Append(@, Event(call, arg))]

\* return Ok(cached.result.content)
ServeCached(r, cached, t) == [Serve(r, cached.result.content) EXCEPT !.served_at = t]

\* A handler step that leaves the cache as d: the request's record afterwards.
Touch(r, c, d) == [r EXCEPT !.others_changed = @ \/ OthersChanged(c, d, r.key)]

\* ingest_github_repo, up to and including check_status.
GetStart ==
    /\ req.pc = "idle"
    /\ \E inp \in RequestInputs :
        LET url == FormatUrl(inp.owner, inp.repo)
            effective_branch == OrOpt(inp.branch, inp.q.branch)
            cache_key == generate_key(url, effective_branch, inp.q.preset,
                             OrOpt(OrOpt(inp.path_prefix, inp.q.path), inp.q.subpath))
            st == check_status(cache, cache_key, now)
            r0 == [pc |-> "start", kind |-> "GET", inp |-> inp, url |-> url,
                   branch |-> effective_branch, key |-> cache_key,
                   params |-> GetIngestionParams(url, inp.branch, inp.path_prefix, inp.q),
                   status |-> "none", cached_commit |-> None, result |-> None,
                   resp |-> None, trace |-> <<>>, started |-> now, head0 |-> head,
                   entry0 |-> EntryOf(cache, cache_key), others_changed |-> FALSE,
                   served_at |-> -1]
        IN  IF ~validate_github_name(inp.owner) \/ ~validate_github_name(inp.repo)
            THEN req' = Fail(r0, "InvalidRequest")
            ELSE req' = [Log(r0, "check_status", st[1]) EXCEPT
                            !.pc = CASE st[1] = "Fresh" -> "fresh_get"
                                     [] st[1] = "Valid" /\ IsSome(st[2]) -> "validate"
                                     [] OTHER -> "ingest",
                            !.status = st[1],
                            !.cached_commit = st[2]]
    /\ UNCHANGED <<cache, now, lastOp, head, prev, fin>>

\* A comparison that takes every upstream commit for the cached one.
CommitUnchanged_always(current_hash, cached_hash) == TRUE

\* if current_hash == *cached_hash
CommitUnchanged(current_hash, cached_hash) == current_hash = cached_hash

\* CacheStatus::Fresh: serve the entry get returns, else fall through.
GetFresh ==
    /\ req.pc = "fresh_get"
    /\ req.key \in DOMAIN cache => cache[req.key].access_count < MaxAccessCount
    /\ LET g == get(cache, req.key, now)
           r1 == Log(req, "get", IF IsSome(g.ret) THEN "hit" ELSE "miss")
       IN  /\ cache' = g.cache
           /\ req' = Touch(IF IsSome(g.ret)
                           THEN ServeCached(r1, Unwrap(g.ret), now)
                           ELSE [r1 EXCEPT !.pc = "ingest"], cache, g.cache)
    /\ UNCHANGED <<now, lastOp, head, prev, fin>>

\* A handler that answers a failed get_remote_head with an error.
ValidationFailed_fails(r) == Fail(r, "InternalError")

\* get_remote_head returned Err: nothing is served or changed, and the handler
\* goes on to the full fetch.
ValidationFailed(r) == [r EXCEPT !.pc = "ingest"]

\* CacheStatus::Valid: get_remote_head, then mark_validated or invalidate; a
\* failed get_remote_head falls through to the full fetch.
GetValidate ==
    /\ req.pc = "validate"
    /\ \E current \in {Some(head), None} :
        LET r1 == Log(req, "get_remote_head", current)
        IN  IF IsSome(current)
            THEN IF CommitUnchanged(Unwrap(current), Unwrap(req.cached_commit))
                 THEN /\ cache' = mark_validated(cache, req.key, now)
                      /\ req' = [Touch(Log(r1, "mark_validated", ""), cache, cache')
                                    EXCEPT !.pc = "valid_get"]
                 ELSE /\ cache' = invalidate(cache, req.key)
                      /\ req' = [Touch(Log(r1, "invalidate", ""), cache, cache')
                                    EXCEPT !.pc = "ingest"]
            ELSE /\ cache' = cache
                 /\ req' = ValidationFailed(r1)
    /\ UNCHANGED <<now, lastOp, head, prev, fin>>

\* After mark_validated: serve the entry get returns, else fall through.
GetValid ==
    /\ req.pc = "valid_get"
    /\ req.key \in DOMAIN cache => cache[req.key].access_count < MaxAccessCount
    /\ LET g == get(cache, req.key, now)
           r1 == Log(req, "get", IF IsSome(g.ret) THEN "hit" ELSE "miss")
       IN  /\ cache' = g.cache
           /\ req' = Touch(IF IsSome(g.ret)
                           THEN ServeCached(r1, Unwrap(g.ret), now)
                           ELSE [r1 EXCEPT !.pc = "ingest"], cache, g.cache)
    /\ UNCHANGED <<now, lastOp, head, prev, fin>>

\* timeout(INGEST_TIMEOUT, IngestionService::ingest(params)): the result made
\* from the snapshot cloned, an ingestion error, or the timeout elapsing.
Ingest ==
    /\ req.pc = "ingest"
    /\ \E outcome \in {"ok", "error", "timeout"} :
        LET r1 == Log(req, "ingest", outcome)
        IN  req' = CASE outcome = "ok" ->
                          [r1 EXCEPT !.pc = IF req.kind = "GET" THEN "get_put" ELSE "post_put",
                                     !.result = Some(IngestResult(req.params, head))]
                     [] outcome = "error" -> Fail(r1, "InternalError")
                     [] OTHER -> Fail(r1, "Timeout")
    /\ UNCHANGED <<cache, now, lastOp, head, prev, fin>>

\* ingest_github_repo after the ingest: the commit hash is what get_remote_head
\* answers now, or metadata.url when it fails; put; respond with the content.
GetPut ==
    /\ req.pc = "get_put"
    /\ \E current \in {Some(head), None} :
        LET result == Unwrap(req.result)
            commit_hash == IF IsSome(current) THEN Unwrap(current) ELSE result.url
            r1 == Log(Log(req, "get_remote_head", current), "put", commit_hash)
        IN  /\ cache' \in put(cache, req.key, req.url, req.branch, commit_hash, result, now)
            /\ req' = Touch(Serve(r1, result.content), cache, cache')
    /\ UNCHANGED <<now, lastOp, head, prev, fin>>

\* ingest_repository (POST /api/ingest), up to and including the cache lookup.
PostStart ==
    /\ req.pc = "idle"
    /\ \E b \in PostInputs :
        LET cache_key == generate_key(b.url, b.branch, b.filter_preset, b.path_prefix)
            g == get(cache, cache_key, now)
            r0 == [pc |-> "start", kind |-> "POST", inp |-> b, url |-> b.url,
                   branch |-> b.branch, key |-> cache_key,
                   params |-> PostIngestionParams(b),
                   status |-> "none", cached_commit |-> None, result |-> None,
                   resp |-> None, trace |-> <<>>, started |-> now, head0 |-> head,
                   entry0 |-> EntryOf(cache, cache_key), others_changed |-> FALSE,
                   served_at |-> -1]
            r1 == Log(r0, "get", IF IsSome(g.ret) THEN "hit" ELSE "miss")
        IN  /\ cache_key \in DOMAIN cache => cache[cache_key].access_count < MaxAccessCount
            /\ cache' = g.cache
            /\ req' = Touch(IF IsSome(g.ret)
                            THEN ServeCached(r1, Unwrap(g.ret), now)
                            ELSE [r1 EXCEPT !.pc = "ingest"], cache, g.cache)
    /\ UNCHANGED <<now, lastOp, head, prev, fin>>

\* ingest_repository after the ingest: the commit hash stored is metadata.url.
PostPut ==
    /\ req.pc = "post_put"
    /\ LET result == Unwrap(req.result)
           commit_hash == result.url
           r1 == Log(req, "put", commit_hash)
       IN  /\ cache' \in put(cache, req.key, req.url, req.branch, commit_hash, result, now)
           /\ req' = Touch(Serve(r1, result.content), cache, cache')
    /\ UNCHANGED <<now, lastOp, head, prev, fin>>

\* The response is sent; the next request may arrive.
Respond ==
    /\ req.pc = "done"
    /\ prev' = IF req.kind = "GET" /\ req.resp.ok
               THEN [kind |-> "GET", inp |-> req.inp, started |-> req.started,
                     body |-> req.resp.body]
               ELSE NoPrev
    /\ req' = Idle
    /\ UNCHANGED <<cache, now, lastOp, head, fin>>

HttpNext ==
    \/ HttpTick
    \/ UpstreamAdvance
    \/ GetStart
    \/ GetFresh
    \/ GetValidate
    \/ GetValid
    \/ Ingest
    \/ GetPut
    \/ PostStart
    \/ PostPut
    \/ Respond

SpecHttp == HttpInit /\ [][HttpNext]_vars

\* The same server, with clients that vary the query string.
QueryInit ==
    /\ cache = EmptyCache
    /\ now = 0
    /\ lastOp = NoOp
    /\ head = CommitA
    /\ req = Idle
    /\ prev = NoPrev
    /\ fin = [fn |-> "http", inputs |-> QueryInputs]

SpecQuery == QueryInit /\ [][HttpNext]_vars

\* ------------------------------------------------- path filter (core)
\* str::split(sep): the pieces between the separators, in order.
RECURSIVE Split(_, _, _)
Split(s, sep, cur) ==
    IF s = <<>> THEN <<cur>>
    ELSE IF s[1] = sep THEN <<cur>> \o Split(Tail(s), sep, <<>>)
    ELSE Split(Tail(s), sep, Append(cur, s[1]))

\* glob_match(pattern, path) of core/src/lib.rs, branch by branch.
glob_match(pattern, path) ==
    IF StartsWith(pattern, <<"*", ".">>)
    THEN EndsWith(path, Tail(pattern))
    ELSE IF EndsWith(pattern, <<"/", "*">>)
    THEN LET prefix == SubSeq(pattern, 1, Len(pattern) - 2)
         IN  StartsWith(path, prefix) /\ Len(path) > Len(prefix)
    ELSE LET parts == Split(pattern, "*", <<>>)
         IN  IF Len(parts) = 2
             THEN StartsWith(path, parts[1]) /\ EndsWith(path, parts[2])
             ELSE path = pattern \/ StartsWith(path, pattern \o <<"/">>)

\* ------------------------------------- generate_key applied to two tuples
PresetRaw == <<"r", "a", "w">>

KeyOptValues == {None, Some(PresetRaw), Some(BranchX)}

KeyTuples ==
    {<<RepoUrl, b, p, pa>> : b \in KeyOptValues, p \in KeyOptValues,
                             pa \in {None, Some(<<"s", "r", "c">>)}}

KeyInit ==
    /\ cache = EmptyCache
    /\ now = 0
    /\ lastOp = NoOp
    /\ head = CommitA
    /\ req = Idle
    /\ prev = NoPrev
    /\ fin \in {[fn |-> "input", a |-> x, b |-> y] : x \in KeyTuples, y \in KeyTuples}

ApplyGenerateKey ==
    /\ fin.fn = "input"
    /\ fin' = [fn |-> "generate_key", a |-> fin.a, b |-> fin.b,
               ka |-> generate_key(fin.a[1], fin.a[2], fin.a[3], fin.a[4]),
               kb |-> generate_key(fin.b[1], fin.b[2], fin.b[3], fin.b[4])]
    /\ UNCHANGED <<cache, now, lastOp, head, req, prev>>

KeyNext == ApplyGenerateKey

SpecKey == KeyInit /\ [][KeyNext]_vars

\* ---------------------------------------- glob_match applied to one pair
PathAlphabet == {"s", "r", "/", "."}

RECURSIVE SeqsUpTo(_, _)
SeqsUpTo(S, n) ==
    IF n = 0 THEN {<<>>}
    ELSE LET shorter == SeqsUpTo(S, n - 1)
         IN  shorter \cup {Append(s, x) : s \in {q \in shorter : Len(q) = n - 1}, x \in S}

GlobPaths == SeqsUpTo(PathAlphabet, MaxPathLen)

GlobPatterns == {<<"s", "/", "*">>, <<"*", ".", "r">>, <<"s", "*", "r">>, <<"s">>, <<"s", "/", "r", "/", "*">>}

GlobInit ==
    /\ cache = EmptyCache
    /\ now = 0
    /\ lastOp = NoOp
    /\ head = CommitA
    /\ req = Idle
    /\ prev = NoPrev
    /\ fin \in {[fn |-> "input", pattern |-> p, path |-> q] : p \in GlobPatterns, q \in GlobPaths}

ApplyGlobMatch ==
    /\ fin.fn = "input"
    /\ fin' = [fn |-> "glob_match", pattern |-> fin.pattern, path |-> fin.path,
               ret |-> glob_match(fin.pattern, fin.path)]
    /\ UNCHANGED <<cache, now, lastOp, head, req, prev>>

GlobNext == ApplyGlobMatch

SpecGlob == GlobInit /\ [][GlobNext]_vars

\* ------------------------------------- should_include applied to one path
\* The byte of each character the patterns below are written with.
CharCode(ch) ==
    CASE ch = "*" -> 42 [] ch = "-" -> 45 [] ch = "." -> 46 [] ch = "/" -> 47
      [] ch = "0" -> 48 [] ch = "1" -> 49 [] ch = "2" -> 50 [] ch = "3" -> 51
      [] ch = "4" -> 52 [] ch = "5" -> 53 [] ch = "6" -> 54 [] ch = "7" -> 55
      [] ch = "8" -> 56 [] ch = "9" -> 57 [] ch = "A" -> 65 [] ch = "B" -> 66
      [] ch = "C" -> 67 [] ch = "D" -> 68 [] ch = "E" -> 69 [] ch = "F" -> 70
      [] ch = "G" -> 71 [] ch = "H" -> 72 [] ch = "I" -> 73 [] ch = "J" -> 74
      [] ch = "K" -> 75 [] ch = "L" -> 76 [] ch = "M" -> 77 [] ch = "N" -> 78
      [] ch = "O" -> 79 [] ch = "P" -> 80 [] ch = "Q" -> 81 [] ch = "R" -> 82
      [] ch = "S" -> 83 [] ch = "T" -> 84 [] ch = "U" -> 85 [] ch = "V" -> 86
      [] ch = "W" -> 87 [] ch = "X" -> 88 [] ch = "Y" -> 89 [] ch = "Z" -> 90
      [] ch = "_" -> 95 [] ch = "a" -> 97 [] ch = "b" -> 98 [] ch = "c" -> 99
      [] ch = "d" -> 100 [] ch = "e" -> 101 [] ch = "f" -> 102 [] ch = "g" -> 103
      [] ch = "h" -> 104 [] ch = "i" -> 105 [] ch = "j" -> 106 [] ch = "k" -> 107
      [] ch = "l" -> 108 [] ch = "m" -> 109 [] ch = "n" -> 110 [] ch = "o" -> 111
      [] ch = "p" -> 112 [] ch = "q" -> 113 [] ch = "r" -> 114 [] ch = "s" -> 115
      [] ch = "t" -> 116 [] ch = "u" -> 117 [] ch = "v" -> 118 [] ch = "w" -> 119
      [] ch = "x" -> 120 [] ch = "y" -> 121 [] ch = "z" -> 122 [] ch = "~" -> 126
      [] OTHER -> 255

\* Ord for String: byte-wise lexicographic.
RECURSIVE StrLess(_, _)
StrLess(a, b) ==
    IF a = <<>> THEN b # <<>>
    ELSE IF b = <<>> THEN FALSE
    ELSE IF a[1] = b[1] THEN StrLess(Tail(a), Tail(b))
    ELSE CharCode(a[1]) < CharCode(b[1])

\* Vec::sort
RECURSIVE SortInsert(_, _)
SortInsert(sorted, x) ==
    IF sorted = <<>> THEN <<x>>
    ELSE IF StrLess(x, sorted[1]) THEN <<x>> \o sorted
    ELSE <<sorted[1]>> \o SortInsert(Tail(sorted), x)

RECURSIVE Sort(_)
Sort(v) == IF v = <<>> THEN <<>> ELSE SortInsert(Sort(Tail(v)), v[1])

\* Vec::dedup: consecutive equal elements collapse into the first.
RECURSIVE Dedup(_)
Dedup(v) ==
    IF Len(v) <= 1 THEN v
    ELSE IF v[1] = v[2] THEN Dedup(Tail(v))
    ELSE <<v[1]>> \o Dedup(Tail(v))

\* FilterCategories::default(): the 14 category tables, each by one of its
\* members (cache_dirs is the field named cache).
lock_files == <<<<"*", ".", "l", "o", "c", "k">>>>

dependencies == <<<<"t", "a", "r", "g", "e", "t", "/", "*">>>>

build_artifacts == <<<<"d", "i", "s", "t", "/", "*">>>>

ide_files == <<<<".", "i", "d", "e", "a", "/", "*">>>>

media_files == <<<<"*", ".", "p", "n", "g">>>>

binary_files == <<<<"*", ".", "z", "i", "p">>>>

documents == <<<<"*", ".", "p", "d", "f">>>>

data_files == <<<<"*", ".", "d", "b">>>>

fonts == <<<<"*", ".", "t", "t", "f">>>>

logs == <<<<"*", ".", "l", "o", "g">>>>

cache_dirs == <<<<".", "c", "a", "c", "h", "e", "/", "*">>>>

os_files == <<<<".", "D", "S", "_", "S", "t", "o", "r", "e">>>>

version_control == <<<<".", "g", "i", "t", "/", "*">>>>

secrets == <<<<".", "e", "n", "v">>>>

\* The 14 tables in the order build_default_excludes and CodeOnly extend them.
AllCategories ==
    lock_files \o dependencies \o build_artifacts \o ide_files \o media_files
        \o binary_files \o documents \o data_files \o fonts \o logs \o cache_dirs
        \o os_files \o version_control \o secrets

\* The names CodeOnly adds, by two of them.
CodeOnlyExtras == <<<<"*", ".", "m", "d">>, <<"R", "E", "A", "D", "M", "E", "*">>>>

\* FilterConfig::build_default_excludes
default_excludes == Dedup(Sort(AllCategories))

get_default_excludes == default_excludes

\* A preset table in which Minimal also drops the documentation names.
get_excludes_for_preset_minimal_docs(preset) ==
    CASE preset = "Raw" -> <<>>
      [] preset = "Standard" -> default_excludes
      [] preset = "CodeOnly" -> AllCategories \o CodeOnlyExtras
      [] preset = "Minimal" ->
            media_files \o binary_files \o documents \o fonts \o version_control
                \o secrets \o CodeOnlyExtras

\* FilterConfig::new().get_excludes_for_preset(preset)
get_excludes_for_preset(preset) ==
    CASE preset = "Raw" -> <<>>
      [] preset = "Standard" -> default_excludes
      [] preset = "CodeOnly" -> AllCategories \o CodeOnlyExtras
      [] preset = "Minimal" ->
            media_files \o binary_files \o documents \o fonts \o version_control
                \o secrets

\* IngestOptions::get_effective_excludes
get_effective_excludes(options) ==
    LET extra == IF IsSome(options.filter_preset)
                 THEN get_excludes_for_preset(Unwrap(options.filter_preset))
                 ELSE IF options.apply_default_filters THEN get_default_excludes
                 ELSE <<>>
    IN  Dedup(Sort(options.exclude_patterns \o extra))

\* Path::components of a relative path: the non-empty pieces between '/'.
Components(path) == SelectSeq(Split(path, "/", <<>>), LAMBDA c : c # <<>>)

\* Path::file_name: the last component, None if there is none or it is "..".
file_name(path) ==
    LET cs == Components(path)
    IN  IF cs = <<>> \/ cs[Len(cs)] = <<".", ".">> THEN None ELSE Some(cs[Len(cs)])

DotGit == <<".", "g", "i", "t">>

\* The closure of should_include that decides whether include pattern p
\* matches the path.
IncludeMatches(p, path) ==
    IF EndsWith(p, <<"/">>)
    THEN LET dir_prefix == SubSeq(p, 1, Len(p) - 1)
         IN  StartsWith(path, dir_prefix) /\ Len(path) > Len(dir_prefix)
    ELSE IF ~Contains(p, <<"/">>)
    THEN IsSome(file_name(path)) /\ glob_match(p, Unwrap(file_name(path)))
    ELSE glob_match(p, path)

Ok(v) == [ok |-> TRUE, val |-> v]

Err == [ok |-> FALSE]

\* A should_include that consults the include patterns before the excludes.
should_include_includes_first(path, options, effective_excludes, status) ==
    IF ~status.ok THEN Err
    ELSE IF status.ignored /\ ~options.include_untracked THEN Ok(FALSE)
    ELSE IF \E i \in DOMAIN Components(path) : Components(path)[i] = DotGit THEN Ok(FALSE)
    ELSE IF options.include_patterns # <<>>
    THEN Ok(\E i \in DOMAIN options.include_patterns :
                IncludeMatches(options.include_patterns[i], path))
    ELSE IF \E i \in DOMAIN effective_excludes : glob_match(effective_excludes[i], path)
    THEN Ok(FALSE)
    ELSE Ok(TRUE)

\* Ingester::should_include; status is what repo.status_file(path) returned:
\* an error, or the status flags of which IGNORED is the one read.
should_include(path, options, effective_excludes, status) ==
    IF ~status.ok THEN Err
    ELSE IF status.ignored /\ ~options.include_untracked THEN Ok(FALSE)
    ELSE IF \E i \in DOMAIN Components(path) : Components(path)[i] = DotGit THEN Ok(FALSE)
    ELSE IF \E i \in DOMAIN effective_excludes : glob_match(effective_excludes[i], path)
    THEN Ok(FALSE)
    ELSE IF options.include_patterns # <<>>
    THEN Ok(\E i \in DOMAIN options.include_patterns :
                IncludeMatches(options.include_patterns[i], path))
    ELSE Ok(TRUE)

FilterPaths ==
    {<<"s", "/", "a", ".", "r", "s">>, <<"s", "/", "a", ".", "m", "d">>, <<"a", ".", "m", "d">>, <<".", "g", "i", "t", "/", "a">>, <<"s", "/", ".", "g", "i", "t", "/", "a">>,
     <<"d", "/", "a", ".", "l", "o", "g">>, <<".", "e", "n", "v">>, <<"s", "d", "/", "a", ".", "r", "s">>, <<"a", ".", "p", "n", "g">>}

UserExcludes == {<<>>, <<<<"*", ".", "m", "d">>>>, <<<<"s", "/", "*">>, <<"*", ".", "l", "o", "g">>>>}

UserIncludes == {<<>>, <<<<"s", "/">>>>, <<<<"*", ".", "m", "d">>>>, <<<<"s", "/", "a", ".", "m", "d">>, <<"d", "/", "*">>>>}

FilterOptions ==
    {[include_patterns |-> inc, exclude_patterns |-> exc, include_untracked |-> u,
      filter_preset |-> fp, apply_default_filters |-> d] :
        inc \in UserIncludes, exc \in UserExcludes, u \in BOOLEAN,
        fp \in {None, Some("Raw"), Some("Standard"), Some("Minimal"), Some("CodeOnly")},
        d \in BOOLEAN}

FileStatuses == {Err, [ok |-> TRUE, ignored |-> FALSE], [ok |-> TRUE, ignored |-> TRUE]}

FilterInit ==
    /\ cache = EmptyCache
    /\ now = 0
    /\ lastOp = NoOp
    /\ head = CommitA
    /\ req = Idle
    /\ prev = NoPrev
    /\ fin \in {[fn |-> "input", path |-> q, options |-> o, status |-> st] :
                    q \in FilterPaths, o \in FilterOptions, st \in FileStatuses}

\* Ingester::new computes effective_excludes from the options; should_include
\* then reads both.
ApplyShouldInclude ==
    /\ fin.fn = "input"
    /\ fin' = [fn |-> "should_include", path |-> fin.path, options |-> fin.options,
               status |-> fin.status,
               ret |-> should_include(fin.path, fin.options,
                                      get_effective_excludes(fin.options), fin.status)]
    /\ UNCHANGED <<cache, now, lastOp, head, req, prev>>

FilterNext == ApplyShouldInclude

SpecFilter == FilterInit /\ [][FilterNext]_vars

\* ------------------------- one path filtered under each of the four presets
Range(v) == {v[i] : i \in DOMAIN v}

PresetNames == {"Raw", "Minimal", "Standard", "CodeOnly"}

PresetPaths ==
    FilterPaths \cup {<<"a", ".", "p", "d", "f">>, <<"a", ".", "l", "o", "c", "k">>, <<"d", "i", "s", "t", "/", "a", ".", "r", "s">>, <<"R", "E", "A", "D", "M", "E", ".", "m", "d">>, <<"R", "E", "A", "D", "M", "E", "S">>}

PresetInit ==
    /\ cache = EmptyCache
    /\ now = 0
    /\ lastOp = NoOp
    /\ head = CommitA
    /\ req = Idle
    /\ prev = NoPrev
    /\ fin \in {[fn |-> "input", path |-> q, include_patterns |-> inc,
                 exclude_patterns |-> exc, include_untracked |-> u, status |-> st] :
                    q \in PresetPaths, inc \in UserIncludes, exc \in UserExcludes,
                    u \in BOOLEAN, st \in FileStatuses \ {Err}}

\* IngestOptions::with_preset(preset) with the user's patterns.
PresetOptions(f, preset) ==
    [include_patterns |-> f.include_patterns, exclude_patterns |-> f.exclude_patterns,
     include_untracked |-> f.include_untracked, filter_preset |-> Some(preset),
     apply_default_filters |-> FALSE]

\* The same path and user patterns run through an Ingester of each preset.
ApplyPresets ==
    /\ fin.fn = "input"
    /\ fin' = [fn |-> "presets", path |-> fin.path,
               include_patterns |-> fin.include_patterns,
               exclude_patterns |-> fin.exclude_patterns,
               excludes |-> [p \in PresetNames |-> get_excludes_for_preset(p)],
               accepted |-> [p \in PresetNames |->
                    should_include(fin.path, PresetOptions(fin, p),
                                   get_effective_excludes(PresetOptions(fin, p)),
                                   fin.status).val]]
    /\ UNCHANGED <<cache, now, lastOp, head, req, prev>>

PresetNext == ApplyPresets

SpecPreset == PresetInit /\ [][PresetNext]_vars

\* --------------------------------------------- Ingester: walk and emission
\* Ord for Path: the components compared in turn, each byte-wise.
RECURSIVE ComponentsLess(_, _)
ComponentsLess(x, y) ==
    IF x = <<>> THEN y # <<>>
    ELSE IF y = <<>> THEN FALSE
    ELSE IF x[1] = y[1] THEN ComponentsLess(Tail(x), Tail(y))
    ELSE StrLess(x[1], y[1])

PathLess(a, b) == ComponentsLess(Components(a), Components(b))

\* files.sort() on a Vec<PathBuf>
RECURSIVE SortPathsInsert(_, _)
SortPathsInsert(sorted, x) ==
    IF sorted = <<>> THEN <<x>>
    ELSE IF PathLess(x, sorted[1]) THEN <<x>> \o sorted
    ELSE <<sorted[1]>> \o SortPathsInsert(Tail(sorted), x)

RECURSIVE SortPaths(_)
SortPaths(v) == IF v = <<>> THEN <<>> ELSE SortPathsInsert(SortPaths(Tail(v)), v[1])

RECURSIVE SetToSeq(_)
SetToSeq(S) ==
    IF S = {} THEN <<>>
    ELSE LET x == CHOOSE y \in S : TRUE IN <<x>> \o SetToSeq(S \ {x})

\* tree.walk(PreOrder) over the blobs of HEAD: git keeps the entries of a tree
\* sorted byte-wise by name with a directory's name followed by '/', so the
\* blobs come in byte-wise order of their full paths.
TreeWalk(repo) == Sort(SetToSeq(DOMAIN repo))

\* full_path.exists() && full_path.is_file()
OnDisk(repo, path) == repo[path].on_disk

BinaryMarker == <<<<"[", "b", "i", "n", "a", "r", "y", " ", "f", "i", "l", "e", "]">>>>

ErrorMarker == <<<<"[", "e", "r", "r", "o", "r", " ", "r", "e", "a", "d", "i", "n", "g", " ", "f", "i", "l", "e", "]">>>>

\* std::fs::read_to_string: the lines of the file, or an error when the bytes
\* are not UTF-8. A NUL byte is valid UTF-8.
read_to_string(repo, path) ==
    IF repo[path].kind = "invalid" THEN Err ELSE Ok(repo[path].lines)

\* The first 8192 bytes contain a NUL byte.
is_binary(repo, path) == repo[path].kind = "nul"

\* compress_license(path, content): None for every path without license,
\* licence or copying in it, which is every path drawn here.
compress_license(path, content) == None

\* writeln!("=== {} ===", path); writeln!("{content}"); writeln!()
HeaderLine(path) == <<"=", "=", "=", " ">> \o path \o <<" ", "=", "=", "=">>

\* One file block: the path it is written for and the lines written.
FileBlock(path, content) ==
    LET c == compress_license(path, content)
        body == IF IsSome(c) THEN Unwrap(c) ELSE content
    IN  [path |-> path, lines |-> <<HeaderLine(path)>> \o body \o <<<<>>>>]

\* generate_tree_from_paths: "Total files: <N>" and one line per path, the
\* file name indented under its directories.
generate_tree_from_paths(paths) ==
    [total_files |-> Len(paths),
     lines |-> [i \in DOMAIN paths |->
                    <<" ", " ">> \o Components(paths[i])[Len(Components(paths[i]))]]]

\* The status of a blob of HEAD in a clean clone.
CleanStatus == [ok |-> TRUE, ignored |-> FALSE]

\* collect_filtered_files for a repository with commits and without
\* include_untracked: the subtree under path_prefix (or the whole tree)
\* walked, each blob's full path kept when should_include accepts it, then
\* sort and dedup.
collect_filtered_files(repo, options) ==
    LET walked ==
            IF IsSome(options.path_prefix)
            THEN SelectSeq(TreeWalk(repo),
                    LAMBDA p : StartsWith(p, Unwrap(options.path_prefix) \o <<"/">>))
            ELSE TreeWalk(repo)
        kept == SelectSeq(walked, LAMBDA p :
                    LET r == should_include(p, options, get_effective_excludes(options),
                                            CleanStatus)
                    IN  r.ok /\ r.val)
    IN  Dedup(SortPaths(kept))

\* ingest_file: nothing for a file above max_file_size, else one block.
ingest_file(repo, options, path) ==
    IF repo[path].size > options.max_file_size THEN <<>>
    ELSE LET r == read_to_string(repo, path)
         IN  <<FileBlock(path, IF r.ok THEN r.val ELSE BinaryMarker)>>

RECURSIVE IngestLoop(_, _, _)
IngestLoop(repo, options, files) ==
    IF files = <<>> THEN <<>>
    ELSE (IF OnDisk(repo, files[1]) THEN ingest_file(repo, options, files[1]) ELSE <<>>)
            \o IngestLoop(repo, options, Tail(files))

\* Ingester::ingest: the preamble over the collected files, then the blocks.
ingest(repo, options) ==
    LET files == collect_filtered_files(repo, options)
    IN  [tree |-> generate_tree_from_paths(files),
         blocks |-> IngestLoop(repo, options, files)]

\* collect_all_repository_files: every blob of HEAD in walk order, unsorted.
collect_all_repository_files(repo) == TreeWalk(repo)

\* fetch_and_cache: the CachedFile list of the index entry; a blob that is
\* not a file in the working copy is left out.
CachedFiles(repo) ==
    LET present == SelectSeq(collect_all_repository_files(repo),
                             LAMBDA p : OnDisk(repo, p))
    IN  [i \in DOMAIN present |->
            [path |-> present[i], size |-> repo[present[i]].size,
             is_binary |-> is_binary(repo, present[i])]]

\* filter_cached_files, first pass: prefix, should_include, size.
FilteredCachedFiles(options, files) ==
    SelectSeq(files, LAMBDA f :
        /\ IsSome(options.path_prefix) =>
                StartsWith(f.path,
                    IF EndsWith(Unwrap(options.path_prefix), <<"/">>)
                    THEN Unwrap(options.path_prefix)
                    ELSE Unwrap(options.path_prefix) \o <<"/">>)
        /\ should_include(f.path, options, get_effective_excludes(options), CleanStatus).val
        /\ ~(f.size > options.max_file_size))

\* filter_cached_files, second pass: one block per filtered file.
RECURSIVE CachedLoop(_, _)
CachedLoop(repo, files) ==
    IF files = <<>> THEN <<>>
    ELSE LET f == files[1]
             r == read_to_string(repo, f.path)
             content == IF f.is_binary THEN BinaryMarker
                        ELSE IF r.ok THEN r.val ELSE ErrorMarker
         IN  <<FileBlock(f.path, content)>> \o CachedLoop(repo, Tail(files))

filter_cached_files(repo, options, files) ==
    LET filtered == FilteredCachedFiles(options, files)
    IN  [tree |-> generate_tree_from_paths([i \in DOMAIN filtered |-> filtered[i].path]),
         blocks |-> CachedLoop(repo, filtered)]

\* IngestionService::count_files over the text of an artifact: the matches
\* of "=== " never span lines, so they are counted line by line.
RECURSIVE MatchesInLine(_)
MatchesInLine(line) ==
    IF Len(line) < 4 THEN 0
    ELSE IF SubSeq(line, 1, 4) = <<"=", "=", "=", " ">> THEN 1 + MatchesInLine(SubSeq(line, 5, Len(line)))
    ELSE MatchesInLine(Tail(line))

RECURSIVE MatchesInLines(_)
MatchesInLines(lines) ==
    IF lines = <<>> THEN 0 ELSE MatchesInLine(lines[1]) + MatchesInLines(Tail(lines))

\* The lines of the artifact after the preamble: the blocks one after another.
RECURSIVE BodyLines(_)
BodyLines(blocks) ==
    IF blocks = <<>> THEN <<>> ELSE blocks[1].lines \o BodyLines(Tail(blocks))

count_files(artifact) ==
    MatchesInLines(artifact.tree.lines) + MatchesInLines(BodyLines(artifact.blocks))

\* ------------------------------ one repository emitted along both paths
EmitPaths == {<<"a", "/", "x">>, <<"a", ".", "t">>, <<"b">>}

PlainLines == <<<<"h">>>>

HeaderLikeLines == <<<<"=", "=", "=", " ", "h", " ", "=", "=", "=">>>>

\* What a blob of HEAD can be in the working copy: not there, or a file of a
\* size at or above max_file_size holding text, text with a line that looks
\* like a header, text with a NUL byte, or bytes that are not UTF-8.
BlobStates ==
    {[on_disk |-> FALSE, size |-> EmitMaxFileSize, kind |-> "text", lines |-> PlainLines]}
    \cup {[on_disk |-> TRUE, size |-> s, kind |-> k[1], lines |-> k[2]] :
            s \in {EmitMaxFileSize, EmitMaxFileSize + 1},
            k \in {<<"text", PlainLines>>, <<"text", HeaderLikeLines>>,
                   <<"nul", PlainLines>>, <<"invalid", PlainLines>>}}

Repos == UNION {[ps -> BlobStates] : ps \in SUBSET EmitPaths}

EmitOptions ==
    {[include_patterns |-> <<>>, exclude_patterns |-> exc, include_untracked |-> FALSE,
      filter_preset |-> Some("Raw"), apply_default_filters |-> FALSE,
      path_prefix |-> pre, max_file_size |-> EmitMaxFileSize] :
        exc \in {<<>>, <<<<"*", ".", "t">>>>}, pre \in {None, Some(<<"a">>)}}

EmitInit ==
    /\ cache = EmptyCache
    /\ now = 0
    /\ lastOp = NoOp
    /\ head = CommitA
    /\ req = Idle
    /\ prev = NoPrev
    /\ fin \in {[fn |-> "emit", repo |-> r, options |-> o, direct |-> None, indexed |-> None] :
                    r \in Repos, o \in EmitOptions}

\* Ingester::ingest on the clone.
DoIngest ==
    /\ fin.fn = "emit"
    /\ fin.direct = None
    /\ fin' = [fin EXCEPT !.direct = Some(ingest(fin.repo, fin.options))]
    /\ UNCHANGED <<cache, now, lastOp, head, req, prev>>

\* Ingester::ingest_cached on the same clone with nothing indexed yet:
\* fetch_and_cache, then filter_cached_files on the entry it built.
DoIngestCached ==
    /\ fin.fn = "emit"
    /\ fin.indexed = None
    /\ fin' = [fin EXCEPT !.indexed =
                    Some(filter_cached_files(fin.repo, fin.options, CachedFiles(fin.repo)))]
    /\ UNCHANGED <<cache, now, lastOp, head, req, prev>>

EmitNext == DoIngest \/ DoIngestCached

SpecEmit == EmitInit /\ [][EmitNext]_vars

\* ------------------------------------------- RepositoryCache (core index)
\* The index cache of src/core/src/cache.rs. The cache directory holds
\* index.json and one <key>.cache payload per entry; every RepositoryCache
\* value holds its own copy of the index, loaded when it is constructed.
IndexMaxSize == 2

IndexMaxAge == 1

IndexKeys == {"k1", "k2"}

IndexUsers == {1, 2}

\* A file written with fs::write is created or truncated and then filled:
\* until the write completes its content is a proper prefix of the data.
NoIndexFile == [exists |-> FALSE, complete |-> FALSE, entries |-> <<>>]

TruncatedIndexFile == [exists |-> TRUE, complete |-> FALSE, entries |-> <<>>]

WrittenIndexFile(index) == [exists |-> TRUE, complete |-> TRUE, entries |-> index]

NoPayload == [exists |-> FALSE]

Payload(entry) == [exists |-> TRUE, state |-> "ok", entry |-> entry]

\* The serialized length of an entry follows from the files of its commit.
SerializedLen(commit_hash) == IF commit_hash = CommitA THEN 1 ELSE 2

\* CacheEntry as fetch_and_cache builds it.
CacheEntryOf(commit_hash, workdir) ==
    [commit_hash |-> commit_hash, repo_path |-> workdir, size |-> SerializedLen(commit_hash)]

\* The running state of one cache call: the caller's index, the disk, whether
\* save_index ran, the entries remove dropped, and the call's result.
CallState(index, disk) ==
    [index |-> index, disk |-> disk, saved |-> FALSE, dropped |-> {}, result |-> "none"]

\* load_index: Err when index.json exists but does not parse.
load_index(disk) ==
    IF ~disk.index_file.exists THEN Ok(<<>>)
    ELSE IF ~disk.index_file.complete THEN Err
    ELSE Ok(disk.index_file.entries)

\* with_config: load_index(..).unwrap_or_default().
with_config(disk) ==
    LET loaded == load_index(disk) IN IF loaded.ok THEN loaded.val ELSE <<>>

\* save_index: rewrites index.json from the caller's index with fs::write.
save_index(st) ==
    [st EXCEPT !.disk.index_file = WrittenIndexFile(st.index), !.saved = TRUE]

check_commit(index, key, current_commit) ==
    IF key \in DOMAIN index
    THEN IF index[key].commit_hash = current_commit THEN "Match" ELSE "Outdated"
    ELSE "NotCached"

\* remove: drops the index record, deletes the payload file when it exists
\* and saves the index. Nothing else on disk is touched.
index_remove(st, key) ==
    IF key \in DOMAIN st.index
    THEN LET file == st.disk.payload[key]
             gone == [key |-> key,
                      repo_path |-> IF file.exists THEN Some(file.entry.repo_path) ELSE None]
         IN  save_index([st EXCEPT !.index = Remove(st.index, key),
                                   !.disk.payload[key] = NoPayload,
                                   !.dropped = st.dropped \cup {gone}])
    ELSE st

\* get: age check, last_accessed update, then the payload.
index_get(st, key, t) ==
    IF key \in DOMAIN st.index
    THEN IF t - st.index[key].created_at > IndexMaxAge
         THEN [index_remove(st, key) EXCEPT !.result = "none"]
         ELSE LET touched == [st EXCEPT !.index[key].last_accessed = t]
                  file == st.disk.payload[key]
              IN  IF file.exists
                  THEN IF file.state = "ok"
                       THEN [save_index(touched) EXCEPT !.result = "some"]
                       ELSE [touched EXCEPT !.result = "err"]
                  ELSE [touched EXCEPT !.result = "none"]
    ELSE [st EXCEPT !.result = "none"]

RECURSIVE SumEntrySizes(_, _)
SumEntrySizes(index, ks) ==
    IF ks = {} THEN 0
    ELSE LET k == CHOOSE x \in ks : TRUE
         IN  index[k].size + SumEntrySizes(index, ks \ {k})

\* The orders in which a HashMap of the cache's keys can be iterated.
IterationOrders ==
    {s \in [1..Cardinality(IndexKeys) -> IndexKeys] :
        \A i, j \in DOMAIN s : i # j => s[i] # s[j]}

\* entries.sort_by_key(|e| e.last_accessed) over the values of the index,
\* taken in iteration order: the sort is stable, ties keep that order.
RECURSIVE SortByLastAccessedInsert(_, _, _)
SortByLastAccessedInsert(index, sorted, k) ==
    IF sorted = <<>> THEN <<k>>
    ELSE IF index[k].last_accessed < index[Head(sorted)].last_accessed
    THEN <<k>> \o sorted
    ELSE <<Head(sorted)>> \o SortByLastAccessedInsert(index, Tail(sorted), k)

RECURSIVE SortByLastAccessed(_, _)
SortByLastAccessed(index, keys) ==
    IF keys = <<>> THEN <<>>
    ELSE SortByLastAccessedInsert(index,
             SortByLastAccessed(index, SubSeq(keys, 1, Len(keys) - 1)), keys[Len(keys)])

EvictionOrder(index, iteration) ==
    LET Present(k) == k \in DOMAIN index
    IN  SortByLastAccessed(index, SelectSeq(iteration, Present))

RECURSIVE EvictLoop(_, _, _, _, _, _)
EvictLoop(st, entries, order, total_size, freed_space, new_entry_size) ==
    IF order = <<>> \/ total_size - freed_space + new_entry_size <= IndexMaxSize
    THEN st
    ELSE EvictLoop(index_remove(st, Head(order)), entries, Tail(order), total_size,
                   freed_space + entries[Head(order)].size, new_entry_size)

evict_if_needed(st, new_entry_size, order) ==
    LET total_size == SumEntrySizes(st.index, DOMAIN st.index)
    IN  IF total_size + new_entry_size <= IndexMaxSize
        THEN st
        ELSE EvictLoop(st, st.index, EvictionOrder(st.index, order), total_size, 0,
                       new_entry_size)

\* put: evict, write the payload, insert the record, save the index.
index_put(st, key, entry, t, order) ==
    LET evicted == evict_if_needed(st, entry.size, order)
        info == [size |-> entry.size, created_at |-> t, last_accessed |-> t,
                 commit_hash |-> entry.commit_hash]
    IN  [save_index([evicted EXCEPT !.disk.payload[key] = Payload(entry),
                                    !.index = Insert(evicted.index, key, info)])
            EXCEPT !.result = "put"]

\* fetch_and_cache: index the clone and put the entry under the cache key.
fetch_and_cache(st, key, commit_hash, workdir, t, order) ==
    index_put(st, key, CacheEntryOf(commit_hash, workdir), t, order)

\* ingest_cached, up to the entry it hands to filter_cached_files.
ingest_cached(st, key, commit_hash, workdir, t, order) ==
    LET status == check_commit(st.index, key, commit_hash)
        got == index_get(st, key, t)
    IN  IF status = "Match"
        THEN IF got.result = "some" THEN got
             ELSE fetch_and_cache(got, key, commit_hash, workdir, t, order)
        ELSE IF status = "Outdated"
        THEN fetch_and_cache(index_remove(st, key), key, commit_hash, workdir, t, order)
        ELSE fetch_and_cache(st, key, commit_hash, workdir, t, order)

\* ---- the processes sharing one cache directory
\* The instants at which the clock is read: the start, and max_age_seconds
\* exceeded for an entry created at the start.
IndexInstants == {0, IndexMaxAge + 1}

MaxClones == 2

NoProcess == [pc |-> "idle", index |-> <<>>, key |-> "", commit |-> "", workdir |-> 0,
              resume |-> "idle", put_key |-> None]

NoCall == [op |-> "none", user |-> 0, key |-> "", result |-> "none", dropped |-> {},
           status |-> "none", payload |-> "none", expired |-> FALSE]

IndexInit ==
    /\ cache = EmptyCache
    /\ now = 0
    /\ lastOp = NoOp
    /\ head = CommitA
    /\ req = Idle
    /\ prev = NoPrev
    /\ fin = [fn |-> "index",
              clock |-> 0,
              clones |-> 0,
              disk |-> [index_file |-> NoIndexFile,
                        payload |-> [k \in IndexKeys |-> NoPayload],
                        workdirs |-> {}],
              users |-> [u \in IndexUsers |-> NoProcess],
              live |-> [k \in IndexKeys |-> 0],
              last |-> NoCall]

\* What a call leaves behind: the disk it wrote, with index.json still being
\* written when the call saved the index, and the puts and drops so far.
AfterCall(u, st, resume, put_key, call) ==
    [fin EXCEPT
        !.disk = IF st.saved THEN [st.disk EXCEPT !.index_file = TruncatedIndexFile]
                 ELSE st.disk,
        !.users[u] = IF st.saved \/ resume = "ready"
                     THEN [@ EXCEPT !.pc = IF st.saved THEN "saving" ELSE resume,
                                    !.index = st.index,
                                    !.resume = resume,
                                    !.put_key = put_key]
                     ELSE NoProcess,
        !.live = [k \in IndexKeys |->
                    IF \E g \in st.dropped : g.key = k THEN 0 ELSE @[k]],
        !.last = call]

CallRecord(op, u, key, commit_hash, st) ==
    [op |-> op, user |-> u, key |-> key, result |-> st.result, dropped |-> st.dropped,
     status |-> check_commit(fin.users[u].index, key, commit_hash),
     payload |-> IF fin.disk.payload[key].exists THEN fin.disk.payload[key].state
                 ELSE "missing",
     expired |-> /\ key \in DOMAIN fin.users[u].index
                 /\ fin.clock - fin.users[u].index[key].created_at > IndexMaxAge]

\* Ingester::from_url_cached: clone into a new directory, RepositoryCache::new.
Open ==
    /\ fin.fn = "index"
    /\ fin.clones < MaxClones
    /\ \E u \in IndexUsers, key \in IndexKeys, commit_hash \in Commits :
        /\ fin.users[u].pc = "idle"
        /\ fin' = [fin EXCEPT
                      !.clones = @ + 1,
                      !.disk.workdirs = @ \cup {fin.clones + 1},
                      !.users[u] = [NoProcess EXCEPT !.pc = "ready",
                                                     !.index = with_config(fin.disk),
                                                     !.key = key,
                                                     !.commit = commit_hash,
                                                     !.workdir = fin.clones + 1],
                      !.last = NoCall]
    /\ UNCHANGED <<cache, now, lastOp, head, req, prev>>

\* RepositoryCache::get called on the process's cache with its cache key.
IndexGet ==
    /\ fin.fn = "index"
    /\ \E u \in IndexUsers :
        /\ fin.users[u].pc = "ready"
        /\ LET key == fin.users[u].key
               st == index_get(CallState(fin.users[u].index, fin.disk), key, fin.clock)
           IN  fin' = AfterCall(u, st, "ready", None,
                                CallRecord("get", u, key, fin.users[u].commit, st))
    /\ UNCHANGED <<cache, now, lastOp, head, req, prev>>

\* Ingester::ingest_cached, after which the process exits.
IndexIngestCached ==
    /\ fin.fn = "index"
    /\ \E u \in IndexUsers :
        /\ fin.users[u].pc = "ready"
        /\ \E order \in IterationOrders :
            LET p == fin.users[u]
                st == ingest_cached(CallState(p.index, fin.disk), p.key, p.commit,
                                    p.workdir, fin.clock, order)
            IN  fin' = AfterCall(u, st, "idle",
                                 IF st.result = "put" THEN Some(p.key) ELSE None,
                                 CallRecord("ingest_cached", u, p.key, p.commit, st))
    /\ UNCHANGED <<cache, now, lastOp, head, req, prev>>

\* The fs::write of save_index completes.
CompleteWrite ==
    /\ fin.fn = "index"
    /\ \E u \in IndexUsers :
        /\ fin.users[u].pc = "saving"
        /\ fin' = [fin EXCEPT
                      !.disk.index_file = WrittenIndexFile(fin.users[u].index),
                      !.users[u] = IF fin.users[u].resume = "idle" THEN NoProcess
                                   ELSE [@ EXCEPT !.pc = "ready", !.put_key = None],
                      !.live = IF fin.users[u].put_key = None THEN @
                               ELSE [@ EXCEPT ![Unwrap(fin.users[u].put_key)] = u],
                      !.last = NoCall]
    /\ UNCHANGED <<cache, now, lastOp, head, req, prev>>

\* The process dies while index.json is being written.
Crash ==
    /\ fin.fn = "index"
    /\ \E u \in IndexUsers :
        /\ fin.users[u].pc = "saving"
        /\ fin' = [fin EXCEPT !.users[u] = NoProcess, !.last = NoCall]
    /\ UNCHANGED <<cache, now, lastOp, head, req, prev>>

\* A payload file is deleted, made unreadable, or damaged behind the cache.
DamagePayload ==
    /\ fin.fn = "index"
    /\ \E key \in IndexKeys, kind \in {"missing", "unreadable", "corrupt"} :
        /\ fin.disk.payload[key].exists
        /\ fin.disk.payload[key].state = "ok"
        /\ fin' = [fin EXCEPT !.disk.payload[key] =
                        IF kind = "missing" THEN NoPayload
                        ELSE [@ EXCEPT !.state = kind],
                              !.last = NoCall]
    /\ UNCHANGED <<cache, now, lastOp, head, req, prev>>

IndexTick ==
    /\ fin.fn = "index"
    /\ \E t \in IndexInstants :
        /\ t > fin.clock
        /\ fin' = [fin EXCEPT !.clock = t, !.last = NoCall]
    /\ UNCHANGED <<cache, now, lastOp, head, req, prev>>

IndexNext ==
    \/ Open
    \/ IndexGet
    \/ IndexIngestCached
    \/ CompleteWrite
    \/ Crash
    \/ DamagePayload
    \/ IndexTick

SpecIndex == IndexInit /\ [][IndexNext]_vars

\* --------------------------------------------------- validate_github_name
MaxNameLen == 3

NameAlphabet == {"a", "0", "-", "_", ".", "!", "U+00E9"}

RECURSIVE Repeat(_, _)
Repeat(c, n) == IF n = 0 THEN <<>> ELSE <<c>> \o Repeat(c, n - 1)

\* Short names over the alphabet, and names at the length limit: 39 and 40
\* ASCII letters, and 20 two-byte letters.
NameInputs ==
    SeqsUpTo(NameAlphabet, MaxNameLen)
        \cup {Repeat("a", 39), Repeat("a", 40), Repeat("U+00E9", 20)}

NameInit ==
    /\ cache = EmptyCache
    /\ now = 0
    /\ lastOp = NoOp
    /\ head = CommitA
    /\ req = Idle
    /\ prev = NoPrev
    /\ fin \in {[fn |-> "input", name |-> n] : n \in NameInputs}

ApplyValidateGithubName ==
    /\ fin.fn = "input"
    /\ fin' = [fn |-> "validate_github_name", name |-> fin.name,
               ret |-> validate_github_name(fin.name)]
    /\ UNCHANGED <<cache, now, lastOp, head, req, prev>>

NameNext == ApplyValidateGithubName

SpecName == NameInit /\ [][NameNext]_vars

\* ------------------------------------------------------------ URL parser
\* src/core/src/parser.rs. A ParsedGitHubUrl is a record; url_type is the name
\* of the GitHubUrlType variant.
RECURSIVE TrimEndMatches(_, _)
TrimEndMatches(s, c) ==
    IF s # <<>> /\ s[Len(s)] = c THEN TrimEndMatches(SubSeq(s, 1, Len(s) - 1), c) ELSE s

\* str::strip_prefix
StripPrefix(s, p) == IF StartsWith(s, p) THEN Some(SubSeq(s, Len(p) + 1, Len(s))) ELSE None

\* [..].join(sep)
RECURSIVE Join(_, _)
Join(parts, sep) ==
    IF parts = <<>> THEN <<>>
    ELSE IF Len(parts) = 1 THEN parts[1]
    ELSE parts[1] \o sep \o Join(Tail(parts), sep)

\* &parts[n..], n counted from zero as in the source.
From(parts, n) == SubSeq(parts, n + 1, Len(parts))

\* source.matches(c).count()
CountChar(s, c) == Cardinality({i \in 1..Len(s) : s[i] = c})

GithubHttps == <<"h", "t", "t", "p", "s", ":", "/", "/", "g", "i", "t", "h", "u", "b", ".", "c", "o", "m", "/">>

GithubHttp == <<"h", "t", "t", "p", ":", "/", "/", "g", "i", "t", "h", "u", "b", ".", "c", "o", "m", "/">>

GithubBare == <<"g", "i", "t", "h", "u", "b", ".", "c", "o", "m", "/">>

GistHttps == <<"h", "t", "t", "p", "s", ":", "/", "/", "g", "i", "s", "t", ".", "g", "i", "t", "h", "u", "b", ".", "c", "o", "m", "/">>

GistHttp == <<"h", "t", "t", "p", ":", "/", "/", "g", "i", "s", "t", ".", "g", "i", "t", "h", "u", "b", ".", "c", "o", "m", "/">>

RawHttps == <<"h", "t", "t", "p", "s", ":", "/", "/", "r", "a", "w", ".", "g", "i", "t", "h", "u", "b", "u", "s", "e", "r", "c", "o", "n", "t", "e", "n", "t", ".", "c", "o", "m", "/">>

RawHttp == <<"h", "t", "t", "p", ":", "/", "/", "r", "a", "w", ".", "g", "i", "t", "h", "u", "b", "u", "s", "e", "r", "c", "o", "n", "t", "e", "n", "t", ".", "c", "o", "m", "/">>

GitlabHttps == <<"h", "t", "t", "p", "s", ":", "/", "/", "g", "i", "t", "l", "a", "b", ".", "c", "o", "m", "/">>

GitlabHttp == <<"h", "t", "t", "p", ":", "/", "/", "g", "i", "t", "l", "a", "b", ".", "c", "o", "m", "/">>

GitlabBare == <<"g", "i", "t", "l", "a", "b", ".", "c", "o", "m", "/">>

ParsedGitHubUrl(owner, repo, branch, path, url_type, canonical_url) ==
    [owner |-> owner, repo |-> repo, branch |-> branch, path |-> path,
     url_type |-> url_type, canonical_url |-> canonical_url]

parse_gist_url(url) ==
    LET path == OrOpt(StripPrefix(url, GistHttps), StripPrefix(url, GistHttp))
        parts == Split(Unwrap(path), "/", <<>>)
    IN  IF path = None THEN None
        ELSE IF Len(parts) = 1
        THEN Some(ParsedGitHubUrl(<<"a", "n", "o", "n", "y", "m", "o", "u", "s">>, parts[1], None, None, "Gist",
                                  GistHttps \o parts[1]))
        ELSE Some(ParsedGitHubUrl(parts[1], parts[2], None, None, "Gist",
                                  GistHttps \o parts[1] \o <<"/">> \o parts[2]))

parse_raw_url(url) ==
    LET path == OrOpt(StripPrefix(url, RawHttps), StripPrefix(url, RawHttp))
        parts == Split(Unwrap(path), "/", <<>>)
    IN  IF path = None THEN None
        ELSE IF Len(parts) >= 3
        THEN Some(ParsedGitHubUrl(parts[1], parts[2], Some(parts[3]),
                      IF Len(parts) > 3 THEN Some(Join(From(parts, 3), <<"/">>)) ELSE None,
                      "Raw", GithubHttps \o parts[1] \o <<"/">> \o parts[2]))
        ELSE None

\* The component names at which the tree/blob arm ends the ref.
ConventionalDirectories ==
    {<<"s", "r", "c">>, <<"l", "i", "b">>, <<"t", "e", "s", "t">>, <<"t", "e", "s", "t", "s">>, <<"d", "o", "c", "s">>, <<"b", "i", "n">>, <<"p", "k", "g">>, <<"c", "m", "d">>, <<"i", "n", "t", "e", "r", "n", "a", "l">>,
     <<"a", "p", "i">>, <<"w", "e", "b">>, <<"c", "l", "i", "e", "n", "t">>, <<"s", "e", "r", "v", "e", "r">>, <<"a", "s", "s", "e", "t", "s">>, <<"p", "u", "b", "l", "i", "c">>}

\* The loop that sets branch_end_idx: the index, from zero, of the first
\* component that holds a '.' without ending in ".git" or is a conventional
\* directory name; all_parts.len() when there is none.
RECURSIVE BranchEndIdx(_, _)
BranchEndIdx(all_parts, i) ==
    IF i >= Len(all_parts) THEN Len(all_parts)
    ELSE LET part == all_parts[i + 1]
         IN  IF Contains(part, <<".">>) /\ ~EndsWith(part, <<".", "g", "i", "t">>) THEN i
             ELSE IF part \in ConventionalDirectories THEN i
             ELSE BranchEndIdx(all_parts, i + 1)

\* The "tree" | "blob" arm of parse_github_url.
TreeOrBlob(owner, repo, parts) ==
    LET all_parts == From(parts, 3)
        branch_end_idx == BranchEndIdx(all_parts, 0)
        branch == Join(SubSeq(all_parts, 1, branch_end_idx), <<"/">>)
        path == IF branch_end_idx < Len(all_parts)
                THEN Some(Join(From(all_parts, branch_end_idx), <<"/">>))
                ELSE None
    IN  Some(ParsedGitHubUrl(owner, repo, Some(branch), path,
                             IF parts[3] = <<"t", "r", "e", "e">> THEN "Tree" ELSE "Blob",
                             GithubHttps \o owner \o <<"/">> \o repo))

parse_github_url(source) ==
    LET url == TrimEndMatches(Trim(source), "/")
        path == OrOpt(OrOpt(StripPrefix(url, GithubHttps), StripPrefix(url, GithubHttp)),
                      StripPrefix(url, GithubBare))
        parts == Split(Unwrap(path), "/", <<>>)
        owner == parts[1]
        repo == parts[2]
        canonical_url == GithubHttps \o owner \o <<"/">> \o repo
    IN  IF Contains(url, <<"g", "i", "s", "t", ".", "g", "i", "t", "h", "u", "b", ".", "c", "o", "m">>) THEN parse_gist_url(url)
        ELSE IF Contains(url, <<"r", "a", "w", ".", "g", "i", "t", "h", "u", "b", "u", "s", "e", "r", "c", "o", "n", "t", "e", "n", "t", ".", "c", "o", "m">>) THEN parse_raw_url(url)
        ELSE IF path = None \/ Len(parts) < 2 THEN None
        ELSE IF Len(parts) = 2
        THEN Some(ParsedGitHubUrl(owner, repo, None, None, "Repository", canonical_url))
        ELSE IF Len(parts) < 4 THEN None
        ELSE IF parts[3] \in {<<"t", "r", "e", "e">>, <<"b", "l", "o", "b">>} THEN TreeOrBlob(owner, repo, parts)
        ELSE IF parts[3] = <<"c", "o", "m", "m", "i", "t">>
        THEN Some(ParsedGitHubUrl(owner, repo, Some(parts[4]), None, "Commit",
                                  canonical_url))
        ELSE IF parts[3] = <<"c", "o", "m", "p", "a", "r", "e">>
        THEN Some(ParsedGitHubUrl(owner, repo, Some(Join(From(parts, 3), <<"/">>)), None,
                                  "Compare", canonical_url))
        ELSE None

\* parts.iter().position(|&p| p == "-"), from zero; None when there is none.
SeparatorIdx(parts) ==
    IF \E i \in 1..Len(parts) : parts[i] = <<"-">>
    THEN Some((CHOOSE i \in 1..Len(parts) :
                   parts[i] = <<"-">> /\ \A j \in 1..(i - 1) : parts[j] # <<"-">>) - 1)
    ELSE None

\* parse_gitlab_url when the URL has a /-/ separator at sep_idx.
GitlabAction(parts, sep_idx) ==
    LET project_parts == SubSeq(parts, 1, sep_idx)
        action_parts == From(parts, sep_idx + 1)
        owner == project_parts[1]
        repo == project_parts[Len(project_parts)]
        canonical_url == GitlabHttps \o Join(project_parts, <<"/">>)
    IN  IF project_parts = <<>> \/ action_parts = <<>> THEN None
        ELSE IF action_parts[1] = <<"t", "r", "e", "e">>
        THEN IF Len(action_parts) < 2 THEN None
             ELSE Some(ParsedGitHubUrl(owner, repo, Some(action_parts[2]),
                           IF Len(action_parts) > 2
                           THEN Some(Join(From(action_parts, 2), <<"/">>)) ELSE None,
                           "GitLabTree", canonical_url))
        ELSE IF action_parts[1] = <<"b", "l", "o", "b">>
        THEN IF Len(action_parts) < 3 THEN None
             ELSE Some(ParsedGitHubUrl(owner, repo, Some(action_parts[2]),
                           Some(Join(From(action_parts, 2), <<"/">>)),
                           "GitLabBlob", canonical_url))
        ELSE IF action_parts[1] = <<"m", "e", "r", "g", "e", "_", "r", "e", "q", "u", "e", "s", "t", "s">>
        THEN IF Len(action_parts) < 2 THEN None
             ELSE Some(ParsedGitHubUrl(owner, repo, Some(action_parts[2]), None,
                                       "GitLabMergeRequest", canonical_url))
        ELSE None

parse_gitlab_url(source) ==
    LET url == TrimEndMatches(Trim(source), "/")
        path == OrOpt(OrOpt(StripPrefix(url, GitlabHttps), StripPrefix(url, GitlabHttp)),
                      StripPrefix(url, GitlabBare))
        parts == Split(Unwrap(path), "/", <<>>)
        separator_idx == SeparatorIdx(parts)
    IN  IF path = None \/ Len(parts) < 2 THEN None
        ELSE IF IsSome(separator_idx) THEN GitlabAction(parts, Unwrap(separator_idx))
        ELSE Some(ParsedGitHubUrl(parts[1], parts[Len(parts)], None, None,
                                  "GitLabRepository", GitlabHttps \o Join(parts, <<"/">>)))

\* The owner/repo shorthand arm of normalize_source_url.
Shorthand(source) ==
    LET parts == Split(source, "/", <<>>)
    IN  IF /\ ~Contains(source, <<":", "/", "/">>)
           /\ CountChar(source, "/") = 1
           /\ Len(parts) = 2
           /\ validate_github_name(parts[1])
           /\ validate_github_name(parts[2])
        THEN Some(GithubHttps \o parts[1] \o <<"/">> \o parts[2])
        ELSE None

normalize_source_url(source, branch, path_prefix) ==
    LET github == parse_github_url(source)
        gitlab == parse_gitlab_url(source)
        short == Shorthand(source)
    IN  IF IsSome(github)
        THEN Ok(<<Unwrap(github).canonical_url, OrOpt(branch, Unwrap(github).branch),
                  OrOpt(path_prefix, Unwrap(github).path)>>)
        ELSE IF IsSome(gitlab)
        THEN Ok(<<Unwrap(gitlab).canonical_url, OrOpt(branch, Unwrap(gitlab).branch),
                  OrOpt(path_prefix, Unwrap(gitlab).path)>>)
        ELSE IF IsSome(short) THEN Ok(<<Unwrap(short), branch, path_prefix>>)
        ELSE Ok(<<source, branch, path_prefix>>)

\* ---- the sources parsed: a forge prefix, an owner and a repository, a route
\* word, and the components after it.
MaxTailLen == 2

SourcePrefixes == {<<>>, GithubHttps, GithubBare, GistHttps, RawHttps, GitlabHttps}

SourceHeads ==
    {<<<<"o">>>>, <<<<"o">>, <<"r">>>>, <<<<"o">>, <<>>>>, <<<<"o">>, <<"r", " ">>>>, <<<<"o">>, <<"g">>, <<"r">>>>}

SourceRoutes == {<<>>, <<<<"t", "r", "e", "e">>>>, <<<<"b", "l", "o", "b">>>>, <<<<"-">>, <<"t", "r", "e", "e">>>>, <<<<"-">>, <<"b", "l", "o", "b">>>>,
                 <<<<"r", "a", "w">>>>}

TailComponents == {<<"m", "a", "i", "n">>, <<"v", "1", ".", "0">>, <<"d", "o", "c", "s">>, <<"x">>, <<>>}

Sources ==
    {p \o Join(h \o r \o t, <<"/">>) :
        p \in SourcePrefixes, h \in SourceHeads, r \in SourceRoutes,
        t \in SeqsUpTo(TailComponents, MaxTailLen)}

ParseInit ==
    /\ cache = EmptyCache
    /\ now = 0
    /\ lastOp = NoOp
    /\ head = CommitA
    /\ req = Idle
    /\ prev = NoPrev
    /\ fin \in {[fn |-> "input", source |-> s, branch |-> b, path_prefix |-> p] :
                    s \in Sources, b \in {None, Some(<<"b">>)}, p \in {None, Some(<<"p">>)}}

\* parse_github_url and normalize_source_url on the source.
ApplyNormalize ==
    /\ fin.fn = "input"
    /\ fin' = [fn |-> "normalize_source_url", source |-> fin.source, branch |-> fin.branch,
               path_prefix |-> fin.path_prefix,
               parsed |-> parse_github_url(fin.source),
               accepted |-> \/ IsSome(parse_github_url(fin.source))
                            \/ IsSome(parse_gitlab_url(fin.source))
                            \/ IsSome(Shorthand(fin.source)),
               first |-> normalize_source_url(fin.source, fin.branch, fin.path_prefix).val]
    /\ UNCHANGED <<cache, now, lastOp, head, req, prev>>

\* normalize_source_url on the triple it returned.
ApplyNormalizeAgain ==
    /\ fin.fn = "normalize_source_url"
    /\ fin' = [fin EXCEPT !.fn = "normalized_again"] @@
              [second |-> normalize_source_url(fin.first[1], fin.first[2], fin.first[3]).val]
    /\ UNCHANGED <<cache, now, lastOp, head, req, prev>>

ParseNext == ApplyNormalize \/ ApplyNormalizeAgain

SpecParse == ParseInit /\ [][ParseNext]_vars

\* ------------------------------------------- the source a request names
\* IngestionService::ingest of api/src/ingestion.rs, as POST /api/ingest
\* and the WebSocket handler call it: normalize_params, then the choice
\* between Ingester::from_url and Ingester::from_path.

GistUserContentHttps == <<"h", "t", "t", "p", "s", ":", "/", "/", "g", "i", "s", "t", ".", "g", "i", "t", "h", "u", "b", "u", "s", "e", "r", "c", "o", "n", "t", "e", "n", "t", ".", "c", "o", "m", "/">>

GistUserContentHttp == <<"h", "t", "t", "p", ":", "/", "/", "g", "i", "s", "t", ".", "g", "i", "t", "h", "u", "b", "u", "s", "e", "r", "c", "o", "n", "t", "e", "n", "t", ".", "c", "o", "m", "/">>

is_remote_url(source) ==
    \/ StartsWith(source, GithubHttps)
    \/ StartsWith(source, GitlabHttps)
    \/ StartsWith(source, GistHttps)
    \/ StartsWith(source, RawHttps)
    \/ StartsWith(source, GistUserContentHttps)

\* parse_gist_url of core/src/lib.rs, the one the crate root exports.
core_parse_gist_url(url) ==
    LET rawPath == OrOpt(StripPrefix(url, GistUserContentHttps), StripPrefix(url, GistUserContentHttp))
        rawParts == Split(Unwrap(rawPath), "/", <<>>)
        path == OrOpt(StripPrefix(url, GistHttps), StripPrefix(url, GistHttp))
        parts == Split(Unwrap(path), "/", <<>>)
    IN  IF Contains(url, <<"g", "i", "s", "t", ".", "g", "i", "t", "h", "u", "b", "u", "s", "e", "r", "c", "o", "n", "t", "e", "n", "t", ".", "c", "o", "m">>) /\ rawPath = None THEN None
        ELSE IF Contains(url, <<"g", "i", "s", "t", ".", "g", "i", "t", "h", "u", "b", "u", "s", "e", "r", "c", "o", "n", "t", "e", "n", "t", ".", "c", "o", "m">>) /\ Len(rawParts) >= 2
        THEN Some(ParsedGitHubUrl(rawParts[1], rawParts[2],
                      IF Len(rawParts) >= 4 THEN Some(rawParts[4]) ELSE None,
                      IF Len(rawParts) >= 5 THEN Some(rawParts[5]) ELSE None,
                      "GistRaw", GistHttps \o rawParts[1] \o <<"/">> \o rawParts[2]))
        ELSE IF path = None THEN None
        ELSE IF Len(parts) = 1
        THEN Some(ParsedGitHubUrl(<<"a", "n", "o", "n", "y", "m", "o", "u", "s">>, parts[1], None, None, "Gist", GistHttps \o parts[1]))
        ELSE Some(ParsedGitHubUrl(parts[1], parts[2], None, None, "Gist",
                                  GistHttps \o parts[1] \o <<"/">> \o parts[2]))

\* parse_github_url of core/src/lib.rs, the one api/src/ingestion.rs imports:
\* the ref of a tree, blob, raw or commit URL is the one component parts[3].
core_parse_github_url(source) ==
    LET url == TrimEndMatches(Trim(source), "/")
        path == OrOpt(OrOpt(StripPrefix(url, GithubHttps), StripPrefix(url, GithubHttp)),
                      StripPrefix(url, GithubBare))
        parts == Split(Unwrap(path), "/", <<>>)
        canonical_url == GithubHttps \o parts[1] \o <<"/">> \o parts[2]
        rest == IF Len(parts) > 4 THEN Some(Join(From(parts, 4), <<"/">>)) ELSE None
    IN  IF Contains(url, <<"g", "i", "s", "t", ".", "g", "i", "t", "h", "u", "b", ".", "c", "o", "m">>) THEN core_parse_gist_url(url)
        ELSE IF Contains(url, <<"r", "a", "w", ".", "g", "i", "t", "h", "u", "b", "u", "s", "e", "r", "c", "o", "n", "t", "e", "n", "t", ".", "c", "o", "m">>) THEN parse_raw_url(url)
        ELSE IF path = None \/ Len(parts) < 2 THEN None
        ELSE IF Len(parts) = 2
        THEN Some(ParsedGitHubUrl(parts[1], parts[2], None, None, "Repository", canonical_url))
        ELSE IF Len(parts) >= 4 /\ parts[3] = <<"t", "r", "e", "e">>
        THEN Some(ParsedGitHubUrl(parts[1], parts[2], Some(parts[4]), rest, "Tree", canonical_url))
        ELSE IF Len(parts) >= 4 /\ parts[3] = <<"b", "l", "o", "b">>
        THEN Some(ParsedGitHubUrl(parts[1], parts[2], Some(parts[4]), rest, "Blob", canonical_url))
        ELSE IF Len(parts) >= 4 /\ parts[3] = <<"r", "a", "w">>
        THEN Some(ParsedGitHubUrl(parts[1], parts[2], Some(parts[4]), rest, "Raw", canonical_url))
        ELSE IF Len(parts) >= 4 /\ parts[3] = <<"c", "o", "m", "m", "i", "t">>
        THEN Some(ParsedGitHubUrl(parts[1], parts[2], Some(parts[4]), None, "Commit", canonical_url))
        ELSE None

\* What the server's filesystem holds at a path: nothing, a directory that is
\* no repository, or a git repository.
PathKinds == {"absent", "directory", "repository"}

\* Path::new(url).exists() on the server.
PathExists(fs, url) == url \in DOMAIN fs /\ fs[url] # "absent"

\* normalize_params(params) on a server whose filesystem is fs.
normalize_params(params, fs) ==
    LET parsed == core_parse_github_url(params.url)
        p == Unwrap(parsed)
        normalized ==
            IF IsSome(parsed)
            THEN [url |-> IF p.url_type = "Gist" THEN p.canonical_url
                          ELSE GithubHttps \o p.owner \o <<"/">> \o p.repo,
                  branch |-> OrOpt(p.branch, params.branch),
                  path_prefix |-> OrOpt(p.path, params.path_prefix)]
            ELSE params
    IN  IF params.url = <<>> THEN Err
        ELSE IF ~is_remote_url(normalized.url) /\ ~PathExists(fs, normalized.url) THEN Err
        ELSE Ok(normalized)

\* clone_repository(url, branch): refuses what is_remote_url refuses.
clone_repository(url) ==
    IF ~is_remote_url(url) THEN Err ELSE Ok([by |-> "clone_repository", source |-> url])

\* Ingester::from_path(path, options): Repository::open(path).
from_path(path, fs) ==
    IF path \in DOMAIN fs /\ fs[path] = "repository"
    THEN Ok([by |-> "Repository::open", source |-> path])
    ELSE Err

\* The urls requests carry, and the local paths among them.
LocalPaths == {<<"/", "s", "r", "v", "/", "r", "e", "p", "o">>, <<".", ".", "/", "r", "e", "p", "o">>}

RequestUrls ==
    LocalPaths \cup
    {<<>>, <<"h", "t", "t", "p", "s", ":", "/", "/", "g", "i", "t", "h", "u", "b", ".", "c", "o", "m", "/", "o", "/", "r">>, <<"g", "i", "t", "h", "u", "b", ".", "c", "o", "m", "/", "o", "/", "r", "/", "t", "r", "e", "e", "/", "m", "a", "i", "n", "/", "s", "r", "c">>, <<"h", "t", "t", "p", "s", ":", "/", "/", "g", "i", "t", "l", "a", "b", ".", "c", "o", "m", "/", "o", "/", "r">>,
     <<"h", "t", "t", "p", "s", ":", "/", "/", "g", "i", "s", "t", ".", "g", "i", "t", "h", "u", "b", ".", "c", "o", "m", "/", "g">>, <<"h", "t", "t", "p", "s", ":", "/", "/", "e", "v", "i", "l", ".", "c", "o", "m", "/", "x">>}

\* POST /api/ingest (ingest_repository) and the WebSocket handler
\* (handle_socket) both build IngestionParams from the request's url and
\* hand them to IngestionService::ingest.
SourceHandlers == {"ingest_repository", "handle_socket"}

NoParams == [ok |-> FALSE, val |-> <<>>]

NoRepository == [ok |-> FALSE, val |-> [by |-> "none", source |-> <<>>]]

SourceInit ==
    /\ cache = EmptyCache
    /\ now = 0
    /\ lastOp = NoOp
    /\ head = CommitA
    /\ req = Idle
    /\ prev = NoPrev
    /\ \E handler \in SourceHandlers, url \in RequestUrls, fs \in [LocalPaths -> PathKinds] :
           fin = [fn |-> "source", handler |-> handler, url |-> url, fs |-> fs,
                  pc |-> "received", params |-> NoParams, repo |-> NoRepository]

\* let params = Self::normalize_params(params)?;
NormalizeParams ==
    /\ fin.fn = "source"
    /\ fin.pc = "received"
    /\ LET r == normalize_params([url |-> fin.url, branch |-> None, path_prefix |-> None], fin.fs)
       IN  fin' = [fin EXCEPT !.pc = IF r.ok THEN "normalized" ELSE "rejected",
                              !.params = IF r.ok THEN r ELSE NoParams]
    /\ UNCHANGED <<cache, now, lastOp, head, req, prev>>

\* Ingester::from_url(&params.url, options)?
FromUrl ==
    /\ fin.fn = "source"
    /\ fin.pc = "normalized"
    /\ is_remote_url(fin.params.val.url)
    /\ LET r == clone_repository(fin.params.val.url)
       IN  fin' = [fin EXCEPT !.pc = IF r.ok THEN "opened" ELSE "failed",
                              !.repo = IF r.ok THEN r ELSE NoRepository]
    /\ UNCHANGED <<cache, now, lastOp, head, req, prev>>

\* Ingester::from_path(&PathBuf::from(&params.url), options)?
FromPath ==
    /\ fin.fn = "source"
    /\ fin.pc = "normalized"
    /\ ~is_remote_url(fin.params.val.url)
    /\ LET r == from_path(fin.params.val.url, fin.fs)
       IN  fin' = [fin EXCEPT !.pc = IF r.ok THEN "opened" ELSE "failed",
                              !.repo = IF r.ok THEN r ELSE NoRepository]
    /\ UNCHANGED <<cache, now, lastOp, head, req, prev>>

SourceNext ==
    \/ NormalizeParams
    \/ FromUrl
    \/ FromPath

SpecSource == SourceInit /\ [][SourceNext]_vars

\* ---------------------------------------------------------- the diff cache
\* DiffCache of api/src/cache.rs and handle_pr of api/src/http.rs.

max_entries == 2

MaxPrVersion == 1

DecimalDigits == <<"0", "1", "2", "3", "4", "5", "6", "7", "8", "9">>

DigitValue(ch) == (CHOOSE i \in 1..10 : DecimalDigits[i] = ch) - 1

\* format!("{}", n) of an unsigned integer.
RECURSIVE FormatU32(_)
FormatU32(n) == IF n < 10 THEN <<DecimalDigits[n + 1]>> ELSE Append(FormatU32(n \div 10), DecimalDigits[(n % 10) + 1])

RECURSIVE DecimalValue(_)
DecimalValue(s) == IF s = <<>> THEN 0 ELSE 10 * DecimalValue(SubSeq(s, 1, Len(s) - 1)) + DigitValue(s[Len(s)])

\* u32::MAX in decimal.
U32MaxDigits == <<"4", "2", "9", "4", "9", "6", "7", "2", "9", "5">>

RECURSIVE StripLeadingZeros(_)
StripLeadingZeros(s) == IF Len(s) > 1 /\ s[1] = "0" THEN StripLeadingZeros(Tail(s)) ELSE s

\* str::parse::<u32>: an optional '+', then one or more decimal digits whose
\* value fits in 32 bits.
ParseU32(s) ==
    LET digits == IF s # <<>> /\ s[1] = "+" THEN Tail(s) ELSE s
        significant == StripLeadingZeros(digits)
    IN  IF digits = <<>> \/ \E i \in 1..Len(digits) : digits[i] \notin Range(DecimalDigits) THEN Err
        ELSE IF Len(significant) > Len(U32MaxDigits) THEN Err
        ELSE IF Len(significant) = Len(U32MaxDigits) /\ StrLess(U32MaxDigits, significant) THEN Err
        ELSE Ok(DecimalValue(significant))

\* DiffCache::generate_key(diff_type, owner, repo, identifier).
diff_generate_key(diff_type, owner, repo, identifier) ==
    Sha256Hex(diff_type \o <<":">> \o owner \o <<"/">> \o repo \o <<":">> \o identifier)

\* DiffCache::get: a hit counts an access and returns the content, whatever
\* the entry's created_at.
diff_get(diffs, key) ==
    IF key \in DOMAIN diffs
    THEN [cache |-> [diffs EXCEPT ![key].access_count = @ + 1], ret |-> Some(diffs[key].content)]
    ELSE [cache |-> diffs, ret |-> None]

\* The keys min_by_key(access_count) can return.
LeastAccessedKeys(diffs) == {k \in DOMAIN diffs : \A j \in DOMAIN diffs : diffs[k].access_count <= diffs[j].access_count}

\* The eviction loop of DiffCache::put.
RECURSIVE DiffEvict(_)
DiffEvict(diffs) ==
    IF Cardinality(DOMAIN diffs) >= max_entries /\ DOMAIN diffs # {}
    THEN UNION {DiffEvict(Remove(diffs, k)) : k \in LeastAccessedKeys(diffs)}
    ELSE {diffs}

\* DiffCache::put: the set of caches the call can produce.
diff_put(diffs, key, content, t) ==
    {Insert(d, key, [content |-> content, created_at |-> t, access_count |-> 1]) : d \in DiffEvict(diffs)}

\* The requests GET /{owner}/{repo}/pull/{pr_number} can carry.
PrOwners == {<<"o">>, <<"-">>}

PrNumbers == {<<"1">>, <<"2">>, <<"x">>}

PrContexts == {None, Some(3)}

\* What IngestionService::generate_pr_diff can do within the handler.
PrDiffOutcomes == {"ok", "error", "timeout"}

NoDiffResponse == [kind |-> "none"]

DiffInit ==
    /\ cache = EmptyCache
    /\ now = 0
    /\ lastOp = NoOp
    /\ head = CommitA
    /\ req = Idle
    /\ prev = NoPrev
    /\ fin = [fn |-> "diff", diffs |-> [k \in {} |-> None],
              upstream |-> [n \in {1, 2} |-> 0], resp |-> NoDiffResponse]

\* The pull request receives a push: its diff is another one from now on.
PrUpdated ==
    /\ fin.fn = "diff"
    /\ \E n \in DOMAIN fin.upstream :
           /\ fin.upstream[n] < MaxPrVersion
           /\ fin' = [fin EXCEPT !.upstream[n] = @ + 1, !.resp = NoDiffResponse]
    /\ UNCHANGED <<cache, now, lastOp, head, req, prev>>

\* handle_pr, from the name check to the response.
HandlePr ==
    /\ fin.fn = "diff"
    /\ \E owner \in PrOwners, pr_number \in PrNumbers, ctx \in PrContexts, outcome \in PrDiffOutcomes :
           LET repo == <<"r">>
               pr_num == ParseU32(pr_number)
               context_suffix == IF IsSome(ctx) THEN <<":", "c", "t", "x">> \o FormatU32(Unwrap(ctx)) ELSE <<>>
               cache_key == diff_generate_key(<<"p", "r">>, owner, repo, pr_number \o context_suffix)
               cached == diff_get(fin.diffs, cache_key)
               diff_content == [pr |-> pr_num.val, ctx |-> ctx, version |-> fin.upstream[pr_num.val]]
           IN  IF ~validate_github_name(owner) \/ ~validate_github_name(repo) \/ ~pr_num.ok
               THEN fin' = [fin EXCEPT !.resp = [kind |-> "InvalidRequest"]]
               ELSE IF IsSome(cached.ret)
               THEN /\ fin.diffs[cache_key].access_count < MaxAccessCount
                    /\ fin' = [fin EXCEPT !.diffs = cached.cache,
                                          !.resp = [kind |-> "ok", cached |-> TRUE, pr |-> pr_num.val,
                                                    content |-> Unwrap(cached.ret),
                                                    age |-> now - fin.diffs[cache_key].created_at]]
               ELSE IF outcome = "timeout"
               THEN fin' = [fin EXCEPT !.resp = [kind |-> "Timeout"]]
               ELSE IF outcome = "error"
               THEN fin' = [fin EXCEPT !.resp = [kind |-> "InternalError"]]
               ELSE \E d \in diff_put(fin.diffs, cache_key, diff_content, now) :
                        fin' = [fin EXCEPT !.diffs = d,
                                           !.resp = [kind |-> "ok", cached |-> FALSE, pr |-> pr_num.val,
                                                     content |-> diff_content, age |-> 0]]
    /\ UNCHANGED <<cache, now, lastOp, head, req, prev>>

DiffNext ==
    \/ Tick
    \/ PrUpdated
    \/ HandlePr

SpecDiff == DiffInit /\ [][DiffNext]_vars

\* ------------------------------------------------- ingestion with callbacks
\* Ingester::ingest_with_callback of core/src/lib.rs; the callback calls are
\* kept in the order made, as WebSocketCallback forwards them to send_fn.

MaxFiles == 2

\* What the calls before the file loop can do: no working directory, a HEAD
\* that does not peel to a tree, a path_prefix the tree does not hold, a
\* find_tree, walk or statuses call that fails, or a list of files.
ScanOutcomes ==
    {"no_workdir", "peel_error", "prefix_not_found", "find_tree_error", "walk_error",
     "statuses_error", "ok"}

\* What one iteration of the file loop meets: a path that is no file on disk,
\* a status_file error inside should_include, a file should_include refuses,
\* a metadata error, a file above max_file_size, a writeln! that fails, or a
\* file that is written and reported.
FileFates ==
    {"absent", "status_error", "excluded", "no_metadata", "too_large", "write_error", "written"}

OnProgress(stage) == [call |-> "on_progress", stage |-> stage]

OnFile(n) == [call |-> "on_file", file |-> n]

OnComplete(files, bytes) == [call |-> "on_complete", files |-> files, bytes |-> bytes]

OnError(error) == [call |-> "on_error", error |-> error]

CallbackInit ==
    /\ cache = EmptyCache
    /\ now = 0
    /\ lastOp = NoOp
    /\ head = CommitA
    /\ req = Idle
    /\ prev = NoPrev
    /\ \E scan \in ScanOutcomes :
       \E files \in (IF scan = "ok" THEN SeqsUpTo(FileFates, MaxFiles) ELSE {<<>>}) :
           fin = [fn |-> "callback", scan |-> scan, files |-> files, pc |-> "start",
                  next |-> 1, processed |-> 0, total_bytes |-> 0, events |-> <<>>, ret |-> "none"]

\* callback.on_progress("starting", ..); self.repo.workdir().context(..)?
Begin ==
    /\ fin.fn = "callback"
    /\ fin.pc = "start"
    /\ fin' = [fin EXCEPT !.events = Append(@, OnProgress("starting")),
                          !.pc = IF fin.scan = "no_workdir" THEN "done" ELSE "scan",
                          !.ret = IF fin.scan = "no_workdir" THEN "Err" ELSE "none"]
    /\ UNCHANGED <<cache, now, lastOp, head, req, prev>>

\* From callback.on_progress("scanning", ..) to
\* callback.on_progress("processing", ..): the tree walk and the statuses.
Scan ==
    /\ fin.fn = "callback"
    /\ fin.pc = "scan"
    /\ LET scanning == Append(fin.events, OnProgress("scanning"))
       IN  IF fin.scan = "prefix_not_found"
           THEN fin' = [fin EXCEPT !.events = Append(scanning, OnError("Path not found")),
                                   !.pc = "done", !.ret = "Ok"]
           ELSE IF fin.scan # "ok"
           THEN fin' = [fin EXCEPT !.events = scanning, !.pc = "done", !.ret = "Err"]
           ELSE fin' = [fin EXCEPT !.events = Append(scanning, OnProgress("processing")),
                                   !.pc = "files"]
    /\ UNCHANGED <<cache, now, lastOp, head, req, prev>>

\* One iteration of `for file in files`.
ProcessFile ==
    /\ fin.fn = "callback"
    /\ fin.pc = "files"
    /\ fin.next <= Len(fin.files)
    /\ LET fate == fin.files[fin.next]
       IN  IF fate \in {"status_error", "write_error"}
           THEN fin' = [fin EXCEPT !.pc = "done", !.ret = "Err"]
           ELSE IF fate = "written"
           THEN fin' = [fin EXCEPT !.events = Append(@, OnFile(fin.next)),
                                   !.total_bytes = @ + 1,
                                   !.processed = @ + 1,
                                   !.next = @ + 1]
           ELSE fin' = [fin EXCEPT !.next = @ + 1]
    /\ UNCHANGED <<cache, now, lastOp, head, req, prev>>

\* After the loop: on_error when nothing was processed, else on_complete.
Finish ==
    /\ fin.fn = "callback"
    /\ fin.pc = "files"
    /\ fin.next > Len(fin.files)
    /\ fin' = [fin EXCEPT !.events = Append(@, IF fin.processed = 0
                                                THEN OnError("No files found to ingest")
                                                ELSE OnComplete(fin.processed, fin.total_bytes)),
                          !.pc = "done", !.ret = "Ok"]
    /\ UNCHANGED <<cache, now, lastOp, head, req, prev>>

CallbackNext ==
    \/ Begin
    \/ Scan
    \/ ProcessFile
    \/ Finish

SpecCallback == CallbackInit /\ [][CallbackNext]_vars

\* ---------------------------------------------------------------- claims
\* C2: between operations the sum of size_bytes over all cached entries is at
\* most max_size, whatever the sizes of the entries put.
C2_SizeWithinBudget == calculate_size(cache) <= max_size

\* C5 (as claimed): every entry has created_at <= last_validated <= last_accessed.
C5_TimestampOrder ==
    \A k \in DOMAIN cache :
        /\ cache[k].created_at <= cache[k].last_validated
        /\ cache[k].last_validated <= cache[k].last_accessed

\* C5 (amended): every entry has created_at <= last_validated and
\* created_at <= last_accessed <= now, and last_validated <= now.
C5_CreatedFirst ==
    \A k \in DOMAIN cache :
        /\ cache[k].created_at <= cache[k].last_validated
        /\ cache[k].created_at <= cache[k].last_accessed
        /\ cache[k].last_validated <= now
        /\ cache[k].last_accessed <= now

\* C5 witness: an entry that was put, later validated and later still read.
C5_Witness ==
    \E k \in DOMAIN cache :
        /\ cache[k].created_at < cache[k].last_validated
        /\ cache[k].last_validated < cache[k].last_accessed

\* C6 (as claimed): check_status answers Fresh, with the cached commit, for
\* every present entry validated less than CACHE_FRESH_SECS ago.
C6_FreshWheneverRecentlyValidated ==
    (lastOp.op = "check_status" /\ lastOp.key \in DOMAIN cache
        /\ now - cache[lastOp.key].last_validated < CACHE_FRESH_SECS)
    => lastOp.ret = <<"Fresh", Some(cache[lastOp.key].commit_hash)>>

\* C6 (amended): check_status answers Fresh, with the cached commit, for every
\* present entry validated less than CACHE_FRESH_SECS ago and created at most
\* CACHE_EXPIRE_SECS ago; an older entry is Expired however recent its
\* validation.
C6_FreshUnlessExpired ==
    (lastOp.op = "check_status" /\ lastOp.key \in DOMAIN cache
        /\ now - cache[lastOp.key].last_validated < CACHE_FRESH_SECS)
    => IF now - cache[lastOp.key].created_at <= CACHE_EXPIRE_SECS
       THEN lastOp.ret = <<"Fresh", Some(cache[lastOp.key].commit_hash)>>
       ELSE lastOp.ret = <<"Expired", None>>

\* C6 witness: check_status has answered for an entry that is older than the
\* freshness window but was validated within it.
C6_Witness ==
    /\ lastOp.op = "check_status"
    /\ lastOp.key \in DOMAIN cache
    /\ now - cache[lastOp.key].last_validated < CACHE_FRESH_SECS
    /\ now - cache[lastOp.key].created_at >= CACHE_FRESH_SECS
    /\ now - cache[lastOp.key].created_at <= CACHE_EXPIRE_SECS

\* The request is answered with the body of a cache entry it read.
ServedFromCache == req.pc = "done" /\ req.served_at >= 0

\* Seconds between the last validation the request found on the entry under
\* its key when it arrived, and instant t.
SinceValidation(r, t) == t - Unwrap(r.entry0).last_validated

\* The answer of the get_remote_head call made before any ingest, if any.
ValidationCall(r) ==
    IF Len(r.trace) >= 2 /\ r.trace[1].call = "check_status"
        /\ r.trace[2].call = "get_remote_head"
    THEN Some(r.trace[2].arg) ELSE None

\* C1: a cache entry last validated CACHE_FRESH_SECS or more ago is served to
\* a request only after that request called get_remote_head and the upstream
\* commit returned equalled the cached commit, for the GET routes and for
\* POST /api/ingest.
C1_StaleServedOnlyAfterValidation ==
    (ServedFromCache /\ IsSome(req.entry0)
        /\ SinceValidation(req, req.served_at) >= CACHE_FRESH_SECS)
    => ValidationCall(req) = Some(Some(Unwrap(req.entry0).commit_hash))

\* The scenario of C3: the request found content of commit A cached under
\* commit A, upstream already stood at B, and the last validation lay more
\* than 5 minutes and less than 7 days back.
RolloverCase(r) ==
    /\ r.kind = "GET"
    /\ IsSome(r.entry0)
    /\ Unwrap(r.entry0).commit_hash = CommitA
    /\ Unwrap(r.entry0).result.content.snap = CommitA
    /\ r.head0 = CommitB
    /\ SinceValidation(r, r.started) > CACHE_FRESH_SECS
    /\ SinceValidation(r, r.started) < CACHE_EXPIRE_SECS

SecondOfPair == req.pc = "done" /\ req.kind = "GET" /\ prev.kind = "GET" /\ prev.inp = req.inp

NoCloneDriver == ~Called(req, "ingest") /\ ~Called(req, "get_remote_head")

\* C4 (as claimed): of two successive identical GET requests less than 5
\* minutes apart, the second calls neither ingest nor get_remote_head and its
\* body equals the first's.
C4_SecondWithinFiveMinutes ==
    (SecondOfPair /\ req.started - prev.started < CACHE_FRESH_SECS)
    => /\ NoCloneDriver
       /\ req.resp.ok
       /\ req.resp.body = prev.body

\* C4 (amended): of two successive identical GET requests of which the first
\* succeeded, the second calls neither ingest nor get_remote_head and its body
\* equals the first's whenever its check_status runs less than 5 minutes after
\* the entry's last validation and the entry has not passed its hard expiry
\* when checked and when read.
C4_SecondWithinFiveMinutesOfValidation ==
    (SecondOfPair /\ IsSome(req.entry0)
        /\ SinceValidation(req, req.started) < CACHE_FRESH_SECS
        /\ req.started - Unwrap(req.entry0).created_at <= CACHE_EXPIRE_SECS
        /\ ~CalledWith(req, "get", "miss"))
    => /\ NoCloneDriver
       /\ req.resp.ok
       /\ req.resp.body = prev.body

\* C4 witness: the second request of a pair, arriving later than the first
\* and inside the freshness window of the entry the first one cached, served
\* from the cache with the first one's body and no call to the clone driver.
C4_Witness ==
    /\ SecondOfPair
    /\ req.started > prev.started
    /\ IsSome(req.entry0)
    /\ SinceValidation(req, req.started) < CACHE_FRESH_SECS
    /\ req.served_at >= 0
    /\ NoCloneDriver
    /\ req.resp.body = prev.body

TimedOut == req.pc = "done" /\ ~req.resp.ok /\ req.resp.err = "Timeout"

\* C7 (as claimed): when the ingest of a request times out, the request fails
\* with Timeout and the cache is exactly as it was when the request started.
C7_TimeoutLeavesCacheAsItWas ==
    TimedOut => (~req.others_changed /\ EntryOf(cache, req.key) = req.entry0)

\* C7 (amended): when the ingest of a request times out, the request fails
\* with Timeout having put nothing and changed no entry under another key;
\* the entry under its own key is as it was when the request started, or has
\* been removed (invalidate after a changed commit, or get on hard expiry).
C7_TimeoutOnlyDropsOwnKey ==
    TimedOut
    => /\ ~req.others_changed
       /\ ~Called(req, "put")
       /\ EntryOf(cache, req.key) \in {req.entry0, None}

\* C7 witness: a request that timed out while another key was cached and
\* after it had invalidated its own.
C7_Witness ==
    /\ TimedOut
    /\ Called(req, "invalidate")
    /\ IsSome(req.entry0)
    /\ req.key \notin DOMAIN cache
    /\ DOMAIN cache # {}

\* C8: two (url, branch, preset, path) tuples that differ in any component get
\* different keys; in particular branch = x with no preset and preset = x with
\* no branch do.
C8_DistinctTuplesDistinctKeys ==
    (fin.fn = "generate_key" /\ fin.a # fin.b) => fin.ka # fin.kb

\* C8 witness: the same string as the branch of one tuple and as the preset
\* of the other, nothing else set, and one key for both.
C8_Witness ==
    /\ fin.fn = "generate_key"
    /\ fin.a = <<RepoUrl, Some(BranchX), None, None>>
    /\ fin.b = <<RepoUrl, None, Some(BranchX), None>>
    /\ fin.ka = fin.kb

\* The pattern has the form <prefix>/* (and is not a *.<ext> pattern).
IsPrefixStar(pattern) ==
    EndsWith(pattern, <<"/", "*">>) /\ ~StartsWith(pattern, <<"*", ".">>)

\* C10: a pattern <prefix>/* matches a path only if the path is <prefix>, then
\* '/', then at least one further character; a pattern *.<ext> matches exactly
\* the paths ending in .<ext>.
C10_GlobShapes ==
    fin.fn = "glob_match"
    => /\ (IsPrefixStar(fin.pattern) /\ fin.ret)
            => /\ StartsWith(fin.path, SubSeq(fin.pattern, 1, Len(fin.pattern) - 1))
               /\ Len(fin.path) > Len(fin.pattern) - 1
       /\ StartsWith(fin.pattern, <<"*", ".">>)
            => (fin.ret <=> EndsWith(fin.path, Tail(fin.pattern)))

\* C10 witness: the pattern s/* matched against a path that starts with s but
\* has no separator after it.
C10_Witness ==
    /\ fin.fn = "glob_match"
    /\ fin.pattern = <<"s", "/", "*">>
    /\ fin.path = <<"s", "r">>
    /\ fin.ret

\* The patterns in effect as excludes: the user's, and the preset's, or the
\* default list when no preset is set and default filters apply.
EffectiveExcludeSet(options) ==
    {options.exclude_patterns[i] : i \in DOMAIN options.exclude_patterns}
    \cup (IF IsSome(options.filter_preset)
          THEN {get_excludes_for_preset(Unwrap(options.filter_preset))[i] :
                    i \in DOMAIN get_excludes_for_preset(Unwrap(options.filter_preset))}
          ELSE IF options.apply_default_filters
          THEN {get_default_excludes[i] : i \in DOMAIN get_default_excludes}
          ELSE {})

HasVcsComponent(path) == \E i \in DOMAIN Components(path) : Components(path)[i] = DotGit

SomeExcludeMatches(path, options) ==
    \E pat \in EffectiveExcludeSet(options) : glob_match(pat, path)

SomeIncludeMatches(path, options) ==
    \E i \in DOMAIN options.include_patterns : IncludeMatches(options.include_patterns[i], path)

\* C9: for a path whose repository status is known, should_include accepts
\* the path exactly when no component of it is .git, it is not git-ignored or
\* untracked files are requested, no effective exclude pattern matches it, and
\* the include set is empty or some include pattern matches it; so a path
\* matching both an exclude and an include is rejected, and with no includes
\* everything not excluded is accepted.
C9_AcceptsExactlyWhen ==
    (fin.fn = "should_include" /\ fin.status.ok)
    => /\ fin.ret.ok
       /\ fin.ret.val <=>
            /\ ~HasVcsComponent(fin.path)
            /\ ~fin.status.ignored \/ fin.options.include_untracked
            /\ ~SomeExcludeMatches(fin.path, fin.options)
            /\ fin.options.include_patterns = <<>> \/ SomeIncludeMatches(fin.path, fin.options)

\* C9 witness: a path matched by a user exclude and by a user include,
\* rejected.
C9_Witness ==
    /\ fin.fn = "should_include"
    /\ fin.status.ok
    /\ ~fin.status.ignored
    /\ ~HasVcsComponent(fin.path)
    /\ \E i \in DOMAIN fin.options.exclude_patterns :
            glob_match(fin.options.exclude_patterns[i], fin.path)
    /\ SomeIncludeMatches(fin.path, fin.options)
    /\ fin.ret = Ok(FALSE)

Artifacts ==
    IF fin.fn = "emit"
    THEN {Unwrap(a) : a \in {fin.direct, fin.indexed} \ {None}}
    ELSE {}

\* C12: in every artifact written by ingest or ingest_cached the file count
\* the tree preamble announces equals the number of file blocks in the body,
\* also when files exceed max_file_size or are missing from the working copy.
C12_AnnouncedCountIsBlockCount ==
    \A a \in Artifacts : a.tree.total_files = Len(a.blocks)

\* C12 witness: ingest announced two files and wrote one block, the other
\* file being larger than max_file_size.
C12_Witness ==
    /\ fin.fn = "emit"
    /\ IsSome(fin.direct)
    /\ Unwrap(fin.direct).tree.total_files = 2
    /\ Len(Unwrap(fin.direct).blocks) = 1
    /\ \E p \in DOMAIN fin.repo :
            fin.repo[p].on_disk /\ fin.repo[p].size > fin.options.max_file_size

\* The lines of an artifact that hold "=== " anywhere but as the start of the
\* header line of one of its blocks.
StrayDelimiterLines(a) ==
    {i \in DOMAIN BodyLines(a.blocks) :
        /\ MatchesInLine(BodyLines(a.blocks)[i]) > 0
        /\ \/ MatchesInLine(BodyLines(a.blocks)[i]) > 1
           \/ ~StartsWith(BodyLines(a.blocks)[i], <<"=", "=", "=", " ">>)
           \/ \A b \in DOMAIN a.blocks : BodyLines(a.blocks)[i] # a.blocks[b].lines[1]}

\* C13: in every artifact "=== " occurs only at column 0 of file-header
\* lines, whatever the files hold, so count_files returns exactly the number
\* of file blocks emitted.
C13_DelimiterOnlyInHeaders ==
    \A a \in Artifacts :
        /\ StrayDelimiterLines(a) = {}
        /\ MatchesInLines(a.tree.lines) = 0
        /\ count_files(a) = Len(a.blocks)

\* C13 witness: one block written for a file whose text has a line starting
\* with "=== ", and count_files returning two.
C13_Witness ==
    \E a \in Artifacts :
        /\ Len(a.blocks) = 1
        /\ count_files(a) = 2

\* C14: the artifact of the indexed path (collect_all_repository_files, index,
\* filter_cached_files) is identical to the artifact of the direct path
\* (collect_filtered_files, ingest_file): same preamble, same blocks in the
\* same order with the same bodies.
C14_IndexedEqualsDirect ==
    (fin.fn = "emit" /\ IsSome(fin.direct) /\ IsSome(fin.indexed))
    => fin.direct = fin.indexed

\* C14 witness: both paths ran on a repository whose files are all present,
\* small and plain text, and the two artifacts list the same files in
\* different orders.
C14_Witness ==
    /\ fin.fn = "emit" /\ IsSome(fin.direct) /\ IsSome(fin.indexed)
    /\ \A p \in DOMAIN fin.repo :
            /\ fin.repo[p].on_disk
            /\ fin.repo[p].kind = "text"
            /\ fin.repo[p].size <= fin.options.max_file_size
    /\ Unwrap(fin.direct).tree.total_files = Unwrap(fin.indexed).tree.total_files
    /\ Unwrap(fin.direct).blocks # Unwrap(fin.indexed).blocks

\* C15: in every artifact, from ingest and from ingest_cached alike, the file
\* blocks are in ascending lexicographic order of repo-relative path (the
\* order of the walker's sort) and no path appears twice.
C15_BlocksAscending ==
    \A a \in Artifacts :
        \A i, j \in DOMAIN a.blocks :
            i < j => PathLess(a.blocks[i].path, a.blocks[j].path)

\* C15 witness: ingest_cached wrote the block of a.t before the block of a/x.
C15_Witness ==
    /\ fin.fn = "emit" /\ IsSome(fin.indexed)
    /\ \E i, j \in DOMAIN Unwrap(fin.indexed).blocks :
            /\ i < j
            /\ Unwrap(fin.indexed).blocks[i].path = <<"a", ".", "t">>
            /\ Unwrap(fin.indexed).blocks[j].path = <<"a", "/", "x">>

\* The process that made the last cache call, and its cache's index.
LastCaller == fin.users[fin.last.user]

NobodySaving == \A u \in IndexUsers : fin.users[u].pc # "saving"

\* C16: whenever the index cache drops an entry (LRU eviction in put, age
\* expiry in get, Outdated in ingest_cached), the index record is gone and
\* the working-copy directory backing the dropped entry is removed from disk.
C16_DropRemovesWorkingCopy ==
    fin.fn = "index" =>
        \A g \in fin.last.dropped :
            /\ fin.last.result # "put" => g.key \notin DOMAIN LastCaller.index
            /\ IsSome(g.repo_path) => Unwrap(g.repo_path) \notin fin.disk.workdirs

\* A put has evicted another key's entry, whose payload named its working copy.
C16_Witness ==
    /\ fin.fn = "index"
    /\ fin.last.op = "ingest_cached"
    /\ fin.last.result = "put"
    /\ \E g \in fin.last.dropped :
        /\ g.key # fin.last.key
        /\ IsSome(g.repo_path)
        /\ g.key \notin DOMAIN LastCaller.index
        /\ ~fin.disk.payload[g.key].exists

\* C17: writes to the index are serialized: when two users of one cache
\* directory have each put a different key, and neither entry was dropped
\* since, the persisted index holds both keys once no write is in progress.
C17_BothPutsPersist ==
    fin.fn = "index" =>
        \A k1, k2 \in IndexKeys :
            ( /\ k1 # k2
              /\ fin.live[k1] # 0
              /\ fin.live[k2] # 0
              /\ fin.live[k1] # fin.live[k2]
              /\ NobodySaving
              /\ fin.disk.index_file.complete )
            => {k1, k2} \subseteq DOMAIN fin.disk.index_file.entries

\* Two users have each completed a put of a different key, nothing was
\* dropped, and index.json is completely written.
C17_Witness ==
    /\ fin.fn = "index"
    /\ fin.live["k1"] # 0
    /\ fin.live["k2"] # 0
    /\ fin.live["k1"] # fin.live["k2"]
    /\ NobodySaving
    /\ fin.disk.index_file.complete
    /\ fin.disk.payload["k1"].exists
    /\ fin.disk.payload["k2"].exists

\* C18: index.json is replaced atomically: whenever the file exists, at any
\* point of a write or after a crash, it holds a complete index, never a
\* partial or empty one.
C18_IndexFileNeverPartial ==
    fin.fn = "index" /\ fin.disk.index_file.exists => fin.disk.index_file.complete

\* A rewrite of an index that had entries was cut short by a crash.
C18_Witness ==
    /\ fin.fn = "index"
    /\ fin.disk.index_file.exists
    /\ ~fin.disk.index_file.complete
    /\ NobodySaving
    /\ \E k \in IndexKeys : fin.disk.payload[k].exists

\* C19: get on an indexed, unexpired key whose payload file is missing,
\* unreadable or undeserializable reports a miss, not an error, and removes
\* the key, so that check_commit for the key then returns NotCached.
C19_DamagedPayloadIsAMiss ==
    ( /\ fin.fn = "index"
      /\ fin.last.op = "get"
      /\ fin.last.status # "NotCached"
      /\ ~fin.last.expired
      /\ fin.last.payload # "ok" )
    => /\ fin.last.result = "none"
       /\ \A c \in Commits : check_commit(LastCaller.index, fin.last.key, c) = "NotCached"

\* get was called on an indexed, unexpired key whose payload file is missing.
C19_Witness ==
    /\ fin.fn = "index"
    /\ fin.last.op = "get"
    /\ fin.last.status = "Match"
    /\ ~fin.last.expired
    /\ fin.last.payload = "missing"
    /\ fin.last.result = "none"

\* A GET request that found its entry in the Valid tier and whose
\* get_remote_head call failed, answered.
ValidationFailedCase ==
    /\ req.pc = "done"
    /\ req.kind = "GET"
    /\ req.status = "Valid"
    /\ ValidationCall(req) = Some(None)

\* C20: when get_remote_head fails for an entry in the Valid tier, the
\* request is not answered from the cache and not failed for it: the handler
\* runs the full ingest, an error response comes only from a failed or timed
\* out ingest, and after a successful ingest the response is the new result
\* and the entry under the request's key holds that result, stored by this
\* request.
C20_FailedValidationFallsThrough ==
    ValidationFailedCase
    => /\ req.served_at = -1
       /\ ~Called(req, "mark_validated")
       /\ ~Called(req, "invalidate")
       /\ Called(req, "ingest")
       /\ ~req.resp.ok => ~CalledWith(req, "ingest", "ok")
       /\ CalledWith(req, "ingest", "ok")
            => /\ req.resp.ok
               /\ req.resp.body = Unwrap(req.result).content
               /\ req.key \in DOMAIN cache
               /\ cache[req.key].result = Unwrap(req.result)
               /\ cache[req.key].key = req.key
               /\ cache[req.key].created_at >= req.started

\* C20 witness: such a request, after the upstream branch moved, answered
\* with a result that differs from the cached one and has replaced it.
C20_Witness ==
    /\ ValidationFailedCase
    /\ CalledWith(req, "ingest", "ok")
    /\ req.resp.ok
    /\ req.resp.body # Unwrap(req.entry0).result.content
    /\ cache[req.key].result = Unwrap(req.result)
    /\ cache[req.key] # Unwrap(req.entry0)

\* The path a GET request names: from the route, else the path, else the
\* subpath query parameter.
RequestPath(r) == OrOpt(OrOpt(r.inp.path_prefix, r.inp.q.path), r.inp.q.subpath)

TraversalUnsafe(o) ==
    IsSome(o) /\ (Contains(Unwrap(o), <<".", ".">>) \/ StartsWith(Unwrap(o), <<"/">>))

\* C21: a GET ingest request whose path contains '..' or starts with '/' is
\* answered InvalidRequest, and nothing is ingested or put into the artifact
\* cache for it.
C21_UnsafePathRejected ==
    (req.pc = "done" /\ req.kind = "GET" /\ TraversalUnsafe(RequestPath(req)))
    => /\ req.resp = [ok |-> FALSE, err |-> "InvalidRequest"]
       /\ ~Called(req, "ingest")
       /\ ~Called(req, "put")

\* C21 witness: a request with a traversal-unsafe path and valid names was
\* answered.
C21_Witness ==
    /\ req.pc = "done"
    /\ req.kind = "GET"
    /\ TraversalUnsafe(RequestPath(req))
    /\ validate_github_name(req.inp.owner)
    /\ validate_github_name(req.inp.repo)
    /\ req.resp.ok
    /\ Called(req, "put")
    /\ req.params.path_prefix = None

\* The filter parameters of a request that the cache key leaves out.
OwnParameters(params) ==
    [include_patterns |-> params.include_patterns,
     exclude_patterns |-> params.exclude_patterns,
     max_file_size |-> params.max_file_size,
     raw |-> params.raw]

\* C24: every successful response to a GET ingest request is an artifact made
\* with that request's own include, exclude, max_size and raw parameters, also
\* when it is served from the artifact cache.
C24_ResponseReflectsOwnParameters ==
    (req.pc = "done" /\ req.kind = "GET" /\ req.resp.ok)
    => OwnParameters(req.resp.body.params) = OwnParameters(req.params)

\* C24 witness: a GET request served from the cache after an earlier request
\* with the same url, branch, preset and path.
C24_Witness ==
    /\ ServedFromCache
    /\ req.kind = "GET"
    /\ req.resp.ok
    /\ req.resp.body.params.url = req.params.url
    /\ req.resp.body.params.filter_preset = req.params.filter_preset
    /\ req.resp.body.params.branch = req.params.branch
    /\ OwnParameters(req.resp.body.params) # OwnParameters(req.params)

AsciiNameChars == {"a", "0", "-", "_", "."}

\* C22: validate_github_name(name) is true exactly when name is non-empty,
\* has at most 39 characters, every character is an ASCII letter, an ASCII
\* digit, '-', '_' or '.', and neither the first nor the last character is
\* '-' or '.'.
C22_ValidNameExactly ==
    fin.fn = "validate_github_name"
    => (fin.ret <=> /\ fin.name # <<>>
                    /\ Len(fin.name) <= 39
                    /\ \A i \in 1..Len(fin.name) : fin.name[i] \in AsciiNameChars
                    /\ fin.name[1] \notin {"-", "."}
                    /\ fin.name[Len(fin.name)] \notin {"-", "."})

\* C22 witness: a name with a letter outside ASCII was accepted.
C22_Witness ==
    /\ fin.fn = "validate_github_name"
    /\ fin.ret
    /\ \E i \in 1..Len(fin.name) : fin.name[i] \in NonAsciiAlphaNumeric

\* C23: source normalization is idempotent: for every accepted source and any
\* branch and path arguments, normalize_source_url applied to the canonical
\* URL, branch and path it returned yields the same triple again.
C23_NormalizeIdempotent ==
    (fin.fn = "normalized_again" /\ fin.accepted) => fin.second = fin.first

\* C23 witness: an accepted source whose normalization changed it, and was
\* applied a second time.
C23_Witness ==
    /\ fin.fn = "normalized_again"
    /\ fin.accepted
    /\ fin.first[1] # fin.source
    /\ fin.second # fin.first

\* The text of s after the first occurrence of marker.
AfterFirst(s, marker) ==
    LET at == CHOOSE i \in 1..Len(s) :
                  /\ SubSeq(s, i, i + Len(marker) - 1) = marker
                  /\ \A j \in 1..(i - 1) : SubSeq(s, j, j + Len(marker) - 1) # marker
    IN  SubSeq(s, at + Len(marker), Len(s))

\* The tail of a /tree/ or /blob/ URL: what follows the route word.
UrlTail(source) ==
    LET url == TrimEndMatches(Trim(source), "/")
    IN  IF Contains(url, <<"/", "t", "r", "e", "e", "/">>) THEN AfterFirst(url, <<"/", "t", "r", "e", "e", "/">>)
        ELSE AfterFirst(url, <<"/", "b", "l", "o", "b", "/">>)

TreeOrBlobParsed ==
    /\ fin.fn # "input"
    /\ IsSome(fin.parsed)
    /\ Unwrap(fin.parsed).url_type \in {"Tree", "Blob"}

\* C30: for every /tree/ or /blob/ URL that parse_github_url accepts, the
\* branch returned is a non-empty ref, and branch joined with path by '/'
\* is the URL's tail after /tree/ or /blob/.
C30_RefAndPathReproduceTail ==
    TreeOrBlobParsed
    => LET parsed == Unwrap(fin.parsed)
           branch == Unwrap(parsed.branch)
       IN  /\ IsSome(parsed.branch)
           /\ branch # <<>>
           /\ UrlTail(fin.source) =
                 IF IsSome(parsed.path) THEN branch \o <<"/">> \o Unwrap(parsed.path)
                 ELSE branch

\* C30 witness: a /tree/ URL whose first tail component is a tag with a dot
\* was parsed.
C30_Witness ==
    /\ TreeOrBlobParsed
    /\ StartsWith(UrlTail(fin.source), <<"v", "1", ".", "0">>)
    /\ Unwrap(fin.parsed).path = Some(UrlTail(fin.source))

\* C25: every artifact-cache entry stores as commit_hash the commit of the
\* snapshot its content was generated from, so that a request served after
\* its get_remote_head call returned the cached commit receives the content
\* of the commit that call returned.
C25_CommitHashIsSnapshotCommit ==
    /\ \A k \in DOMAIN cache : cache[k].commit_hash = cache[k].result.content.snap
    /\ (ServedFromCache /\ Called(req, "mark_validated"))
         => ValidationCall(req) = Some(Some(req.resp.body.snap))

\* C25 witness: upstream advanced between the clone and the put of a GET
\* request, and the entry pairs the new commit with the old snapshot.
C25_Witness ==
    \E k \in DOMAIN cache :
        /\ cache[k].commit_hash = CommitB
        /\ cache[k].result.content.snap = CommitA

\* C26: no POST /api/ingest or WebSocket request makes the server ingest a
\* local filesystem path: every url that normalize_params lets through is
\* one is_remote_url accepts, and a repository is opened only by cloning
\* such a url.
C26_OnlyRemoteUrlsIngested ==
    fin.fn = "source" =>
        /\ fin.params.ok => is_remote_url(fin.params.val.url)
        /\ fin.repo.ok => (fin.repo.val.by = "clone_repository" /\ is_remote_url(fin.repo.val.source))

\* C26 witness: a request naming a path of the server's filesystem had the
\* repository at that path opened.
C26_Witness ==
    /\ fin.fn = "source"
    /\ fin.pc = "opened"
    /\ fin.url \in LocalPaths
    /\ fin.repo.val = [by |-> "Repository::open", source |-> fin.url]

\* C27: during a put into the artifact cache every evicted entry has the
\* smallest last_accessed among the entries present at its eviction, and the
\* eviction loop terminates: it removes at most the entries the cache held
\* and stops with room for the new entry or with the cache empty.
C27_EvictsLeastRecentlyAccessed ==
    lastOp.op = "put" =>
        /\ \A i \in 1..Len(lastOp.evicted) :
               \A t \in lastOp.evicted[i].present : lastOp.evicted[i].last_accessed <= t
        /\ Len(lastOp.evicted) <= lastOp.entries
        /\ (calculate_size(lastOp.left) + lastOp.size_bytes <= max_size \/ DOMAIN lastOp.left = {})

\* C27 witness: a put evicted an entry while a more recently accessed entry
\* was present, and that entry was kept.
C27_Witness ==
    /\ lastOp.op = "put"
    /\ \E i \in 1..Len(lastOp.evicted) :
           \E t \in lastOp.evicted[i].present : lastOp.evicted[i].last_accessed < t
    /\ DOMAIN lastOp.left # {}

\* C28: a pull-request diff is served from the diff cache only for a short,
\* bounded time after it was cached, here at most the hard expiry age of the
\* artifact cache; after that a request for the same key regenerates it.
C28_CachedDiffServedOnlyBriefly ==
    (fin.fn = "diff" /\ fin.resp.kind = "ok" /\ fin.resp.cached) => fin.resp.age <= CACHE_EXPIRE_SECS

\* C28 witness: a request was answered from the diff cache, after the bound
\* had passed, with a diff the pull request no longer has.
C28_Witness ==
    /\ fin.fn = "diff"
    /\ fin.resp.kind = "ok"
    /\ fin.resp.cached
    /\ fin.resp.age > CACHE_EXPIRE_SECS
    /\ fin.resp.content.version # fin.upstream[fin.resp.pr]

Terminals(events) == {i \in 1..Len(events) : events[i].call \in {"on_complete", "on_error"}}

OnFileCalls(events) == {i \in 1..Len(events) : events[i].call = "on_file"}

\* C29: the calls of a run of ingest_with_callback begin with the start
\* event, hold at most one terminal call (on_complete or on_error), which
\* follows every on_file call and, when it is on_complete, carries the
\* number of on_file calls; and every finished run, one that returned an
\* error included, ends with its terminal call.
C29_CallbackProtocol ==
    fin.fn = "callback" =>
        /\ fin.events # <<>> => fin.events[1] = OnProgress("starting")
        /\ Cardinality(Terminals(fin.events)) <= 1
        /\ \A i \in Terminals(fin.events) :
               /\ \A j \in OnFileCalls(fin.events) : j < i
               /\ fin.events[i].call = "on_complete"
                      => fin.events[i].files = Cardinality(OnFileCalls(fin.events))
        /\ fin.pc = "done" => Terminals(fin.events) = {Len(fin.events)}

\* C29 witness: a run reported a file and then returned an error without a
\* terminal call.
C29_Witness ==
    /\ fin.fn = "callback"
    /\ fin.pc = "done"
    /\ fin.ret = "Err"
    /\ OnFileCalls(fin.events) # {}
    /\ Terminals(fin.events) = {}

====
